---- MODULE Spec2Model ----
(***************************************************************************)
(* A model of pkgcheck's cache removal (caches.py), its feed-level caches   *)
(* (feeds.py: QueryCache, EvaluateDepSet) and the checksum consistency     *)
(* checks of pkgcore_checks/repo_metadata.py, with the repository-wide     *)
(* checks for unused global flags and unused licenses and the multi-value  *)
(* fields of the Findings (also DeprecatedEclass of deprecated.py).        *)
(*                                                                         *)
(* Each subsystem has its own specification (SpecCache, SpecDigests,       *)
(* SpecQuery, SpecDepSet, SpecManifest, SpecFold, SpecFindings); the       *)
(* variables of the other subsystems keep their initial values under it.   *)
(***************************************************************************)
EXTENDS Integers, Sequences, FiniteSets, TLC

VARIABLES
    files,          \* cache tree: the paths that are regular files
    dirs,           \* cache tree: the paths that are directories
    denied,         \* paths whose unlink/rmdir fails with EACCES
    call,           \* the last remove_caches call: options, tree before, outcome
    _fetchables,    \* ConflictingDigests._fetchables: filename -> <<chksums, seen>>
    reports,        \* the reporter of ConflictingDigests: Findings in emission order
    log,            \* one entry per fetchable fed since the last finish
    nfeeds,         \* number of ConflictingDigests.feed calls so far
    query_cache,    \* QueryCache.query_cache
    _key,           \* QueryCache._key
    freq,           \* options.query_caching_freq
    qfeed,          \* the last QueryCache.feed: unit, previous unit, cache snapshots
    repos,          \* the repositories of the manifest check: accessor and manifest
    mcall,          \* the last ConflictManifestDigest.feed: unit, Findings, records fetched
    flags,          \* UnusedGlobalFlags.flags
    licenses,       \* UnusedLicense.licenses
    fold_reports,   \* the reporter of the two checks: Findings in emission order
    fold,           \* the options of the scan, and for each of the two checks its
                    \* position in start/feed/finish, the set start built and the
                    \* items the records fed so far matched
    built,          \* a Finding built twice, from the same values met in two orders
    pkg_evaluate_depsets_cache,  \* EvaluateDepSet.pkg_evaluate_depsets_cache
    pkg_profiles_cache,          \* EvaluateDepSet.pkg_profiles_cache
    profiles,       \* what EvaluateDepSet.profiles.identify_profiles answers
    dfeed           \* the last EvaluateDepSet.feed: unit, previous unit, the calls
                    \* its checks made and what the caches held before clear()

vars == <<files, dirs, denied, call, _fetchables, reports, log, nfeeds,
          query_cache, _key, freq, qfeed, repos, mcall,
          flags, licenses, fold_reports, fold, built,
          pkg_evaluate_depsets_cache, pkg_profiles_cache, profiles, dfeed>>

cacheVars  == <<files, dirs, denied, call>>
digestVars == <<_fetchables, reports, log, nfeeds>>
queryVars  == <<query_cache, _key, freq, qfeed>>
maniVars   == <<repos, mcall>>
foldVars   == <<flags, licenses, fold_reports, fold>>
findVars   == <<built>>
depVars    == <<pkg_evaluate_depsets_cache, pkg_profiles_cache, profiles, dfeed>>

\* A value no program value equals (Python's None).
None == "None"

\* The elements of a sequence.
Range(s) == {s[i] : i \in DOMAIN s}

(***************************************************************************)
(*                      caches.py: CachedAddon                             *)
(***************************************************************************)

\* Paths are sequences of names; const.USER_CACHE_DIR is the root of the tree.
USER_CACHE_DIR == <<"pkgcheck">>

\* pjoin(const.USER_CACHE_DIR, 'repos')
repos_dir == USER_CACHE_DIR \o <<"repos">>

\* The registered cache types (cls.caches.values()), sorted by type.
caches == << [type |-> "git",      file |-> "git.pickle"],
             [type |-> "profiles", file |-> "profiles.pickle"] >>

\* Python's string order on the names that occur in the tree.
NameRank == [n \in {"dev", "gentoo", "git.pickle", "local", "notes.txt", "pkgcheck",
                    "profiles.pickle", "repos", "settings.conf"} |->
             CASE n = "dev" -> 1 [] n = "gentoo" -> 2 [] n = "git.pickle" -> 3
               [] n = "local" -> 4 [] n = "notes.txt" -> 5 [] n = "pkgcheck" -> 6
               [] n = "profiles.pickle" -> 7 [] n = "repos" -> 8
               [] n = "settings.conf" -> 9]

\* pathlib's order on paths: lexicographic on the parts.
RECURSIVE PathLess(_, _)
PathLess(p, q) ==
    IF p = <<>> THEN q # <<>>
    ELSE IF q = <<>> THEN FALSE
    ELSE IF Head(p) # Head(q) THEN NameRank[Head(p)] < NameRank[Head(q)]
    ELSE PathLess(Tail(p), Tail(q))

\* path.parent and path.name
Parent(p) == SubSeq(p, 1, Len(p) - 1)
Name(p) == p[Len(p)]

IsPrefix(p, q) == Len(p) <= Len(q) /\ SubSeq(q, 1, Len(p)) = p

\* The proper ancestors of a path, from the root of the tree down.
Ancestors(p) == {SubSeq(p, 1, n) : n \in 1..(Len(p) - 1)}

\* The entries directly inside directory d.
Children(fs, d) == {p \in fs.files \cup fs.dirs : Len(p) = Len(d) + 1 /\ Parent(p) = d}

\* A set of paths as the sorted tuple Python builds from it.
SortedPaths(S) ==
    LET any == CHOOSE s \in [1..Cardinality(S) -> S] : Range(s) = S
    IN SortSeq(any, PathLess)

\* pathlib.Path(repos_dir).rglob(name): every entry below repos_dir of that name.
rglob(fs, name) ==
    {p \in fs.files \cup fs.dirs : IsPrefix(repos_dir, p) /\ p # repos_dir /\ Name(p) = name}

\* CachedAddon.existing: cache type -> sorted tuple of the paths of its files.
existing(fs) ==
    [t \in {caches[i].type : i \in DOMAIN caches} |->
        LET c == CHOOSE c \in Range(caches) : c.type = t
        IN SortedPaths(rglob(fs, c.file))]

\* Selected without the test of options.cache: every cache type is visited.
RECURSIVE SelectedAll(_, _, _)
SelectedAll(fs, options, i) ==
    IF i > Len(caches) THEN <<>>
    ELSE LET t == caches[i].type
             paths == existing(fs)[t]
         IN [k \in DOMAIN paths |-> [cache_type |-> t, path |-> paths[k]]]
            \o SelectedAll(fs, options, i + 1)

\* The (cache_type, path) pairs remove_caches visits, in its iteration order:
\* the types in sorted order, the selected ones only, each type's paths sorted.
RECURSIVE Selected(_, _, _)
Selected(fs, options, i) ==
    IF i > Len(caches) THEN <<>>
    ELSE LET t == caches[i].type
             paths == existing(fs)[t]
         IN (IF options.cache[t]
             THEN [k \in DOMAIN paths |-> [cache_type |-> t, path |-> paths[k]]]
             ELSE <<>>) \o Selected(fs, options, i + 1)

\* RemoveEmptyDirs without the test of errno.ENOTEMPTY: the error of rmdir on
\* a directory that is not empty is raised like any other.
RECURSIVE RemoveEmptyDirsNotEmptyRaises(_, _, _)
RemoveEmptyDirsNotEmptyRaises(fs, den, path) ==
    IF path = USER_CACHE_DIR THEN [fs |-> fs, err |-> None, path |-> path, filename |-> <<>>]
    ELSE LET d == Parent(path) IN
         IF d \in den THEN [fs |-> fs, err |-> "EACCES", path |-> path, filename |-> d]
         ELSE IF d \notin fs.dirs
         THEN [fs |-> fs, err |-> "ENOENT", path |-> path, filename |-> d]
         ELSE IF Children(fs, d) # {}
         THEN [fs |-> fs, err |-> "ENOTEMPTY", path |-> path, filename |-> d]
         ELSE RemoveEmptyDirsNotEmptyRaises([fs EXCEPT !.dirs = @ \ {d}], den, d)

\* RemoveEmptyDirs with every error of rmdir taken for the stop of the loop.
RECURSIVE RemoveEmptyDirsSwallows(_, _, _)
RemoveEmptyDirsSwallows(fs, den, path) ==
    IF path = USER_CACHE_DIR THEN [fs |-> fs, err |-> None, path |-> path, filename |-> <<>>]
    ELSE LET d == Parent(path) IN
         IF d \in den \/ d \notin fs.dirs \/ Children(fs, d) # {}
         THEN [fs |-> fs, err |-> None, path |-> path, filename |-> <<>>]
         ELSE RemoveEmptyDirsSwallows([fs EXCEPT !.dirs = @ \ {d}], den, d)

\* The loop that removes empty cache dirs after path was unlinked.  The result
\* is the tree, and err: None, or the errno of the rmdir that failed together
\* with the value the variable path had then and the directory the error
\* names (e.filename).
RECURSIVE RemoveEmptyDirs(_, _, _)
RemoveEmptyDirs(fs, den, path) ==
    IF path = USER_CACHE_DIR THEN [fs |-> fs, err |-> None, path |-> path, filename |-> <<>>]
    ELSE LET d == Parent(path) IN
         \* path.parent.rmdir()
         IF d \in den THEN [fs |-> fs, err |-> "EACCES", path |-> path, filename |-> d]
         ELSE IF d \notin fs.dirs
         THEN [fs |-> fs, err |-> "ENOENT", path |-> path, filename |-> d]
         \* errno.ENOTEMPTY: continue with the next path
         ELSE IF Children(fs, d) # {}
         THEN [fs |-> fs, err |-> None, path |-> path, filename |-> <<>>]
         ELSE RemoveEmptyDirs([fs EXCEPT !.dirs = @ \ {d}], den, d)

\* path.unlink()
unlink(fs, den, path) ==
    IF path \in den THEN [fs |-> fs, err |-> "EACCES"]
    ELSE IF path \in fs.dirs THEN [fs |-> fs, err |-> "EISDIR"]
    ELSE IF path \notin fs.files THEN [fs |-> fs, err |-> "ENOENT"]
    ELSE [fs |-> [fs EXCEPT !.files = @ \ {path}], err |-> None]

\* No exception.  Of a UserException: the cache type and the path its message
\* starts with (<<>>: none), and the errno and file name of the OS error the
\* message ends with.
NoExc == [exc |-> None, cache_type |-> None, path |-> <<>>, errno |-> None,
          filename |-> <<>>]

\* The body of the loops of remove_caches from work item i on.  The result is
\* the tree, the paths printed and the exception raised (NoExc: none).
RECURSIVE RemoveSelected(_, _, _, _, _, _)
RemoveSelected(fs, den, options, work, i, printed) ==
    IF i > Len(work) THEN [fs |-> fs, printed |-> printed, raised |-> NoExc]
    ELSE LET w == work[i] IN
         IF options.dry_run
         THEN RemoveSelected(fs, den, options, work, i + 1, Append(printed, w.path))
         ELSE LET u == unlink(fs, den, w.path) IN
              IF u.err # None
              THEN [fs |-> u.fs, printed |-> printed,
                    raised |-> [exc |-> "UserException", cache_type |-> w.cache_type,
                                path |-> w.path, errno |-> u.err, filename |-> w.path]]
              ELSE LET r == RemoveEmptyDirs(u.fs, den, w.path) IN
                   IF r.err # None
                   THEN [fs |-> r.fs, printed |-> printed,
                         raised |-> [exc |-> "UserException", cache_type |-> w.cache_type,
                                     path |-> r.path, errno |-> r.err,
                                     filename |-> r.filename]]
                   ELSE RemoveSelected(r.fs, den, options, work, i + 1, printed)

\* The outcomes of shutil.rmtree(const.USER_CACHE_DIR).  Without a failing
\* entry the whole tree goes.  With one, rmtree raises after it removed, in
\* directory order, some of the entries that can go: some files F other than
\* the failing ones, and the directories left with nothing below them; the
\* error names a failing entry.
rmtree(fs, den) ==
    LET all == fs.files \cup fs.dirs
        bad == {p \in all : p \in den}
        gone(F) == {d \in fs.dirs : \A q \in all : IsPrefix(d, q) =>
                                        IF q \in fs.files THEN q \in F ELSE q \notin bad}
    IN IF USER_CACHE_DIR \notin fs.dirs
       THEN {[fs |-> fs, err |-> "ENOENT", filename |-> USER_CACHE_DIR]}
       ELSE IF bad = {}
       THEN {[fs |-> [files |-> {}, dirs |-> {}], err |-> None, filename |-> <<>>]}
       ELSE {[fs |-> [files |-> fs.files \ F, dirs |-> fs.dirs \ gone(F)], err |-> "EACCES",
              filename |-> b] :
                F \in SUBSET (fs.files \ bad), b \in bad}

\* remove_caches without the force branch: the selected caches only.
remove_cachesSelectedOnly(fs, den, options) ==
    {RemoveSelected(fs, den, options, Selected(fs, options, 1), 1, <<>>)}

\* CachedAddon.remove_caches(options): the possible outcomes.
remove_caches(fs, den, options) ==
    IF options.force_cache
    THEN {[fs |-> r.fs, printed |-> <<>>,
           raised |-> IF r.err \in {None, "ENOENT"} THEN NoExc
                      ELSE [exc |-> "UserException", cache_type |-> None,
                            path |-> <<>>, errno |-> r.err, filename |-> r.filename]] :
            r \in rmtree(fs, den)}
    ELSE {RemoveSelected(fs, den, options, Selected(fs, options, 1), 1, <<>>)}

\* The options of the cache subcommand.
Options == [cache : [{"git", "profiles"} -> BOOLEAN], dry_run : BOOLEAN,
            force_cache : BOOLEAN]

\* The files a cache tree may hold.
FileUniverse ==
    { repos_dir \o <<"gentoo", "git.pickle">>,
      repos_dir \o <<"gentoo", "profiles.pickle">>,
      repos_dir \o <<"gentoo", "notes.txt">>,
      repos_dir \o <<"local", "git.pickle">>,
      repos_dir \o <<"local", "dev", "git.pickle">>,
      repos_dir \o <<"local", "dev", "profiles.pickle">>,
      USER_CACHE_DIR \o <<"settings.conf">> }

\* Directories that may exist without holding anything.
EmptyDirChoices ==
    { {}, {USER_CACHE_DIR}, {USER_CACHE_DIR, repos_dir},
      {USER_CACHE_DIR, repos_dir, repos_dir \o <<"gentoo">>} }

\* The entries on which the operating system may refuse a removal.
DeniedChoices ==
    { {}, {repos_dir \o <<"gentoo", "git.pickle">>}, {repos_dir \o <<"local">>},
      {repos_dir}, {USER_CACHE_DIR} }

NoOptions == [cache |-> [t \in {"git", "profiles"} |-> FALSE], dry_run |-> FALSE,
              force_cache |-> FALSE]

\* call before the first call of remove_caches.
NoCall == [called |-> FALSE, options |-> NoOptions, files |-> {}, dirs |-> {},
           printed |-> <<>>, raised |-> NoExc]

InitCache ==
    /\ files \in SUBSET FileUniverse
    /\ \E extra \in EmptyDirChoices :
          dirs = extra \cup UNION {Ancestors(f) : f \in files}
    /\ denied \in DeniedChoices
    /\ call = NoCall

\* One call of CachedAddon.remove_caches.
RemoveCaches ==
    /\ ~call.called        \* the cache subcommand calls it once
    /\ \E options \in Options :
      \E r \in remove_caches([files |-> files, dirs |-> dirs], denied, options) :
        /\ files' = r.fs.files
        /\ dirs' = r.fs.dirs
        /\ call' = [called |-> TRUE, options |-> options, files |-> files, dirs |-> dirs,
                    printed |-> r.printed, raised |-> r.raised]
        /\ UNCHANGED denied

(***************************************************************************)
(*            repo_metadata.py: ConflictingDigests                         *)
(***************************************************************************)

\* The records (versioned packages) of a scan.
Pkgs == { [category |-> "dev-a", package |-> "foo", version |-> "1"],
          [category |-> "dev-a", package |-> "foo", version |-> "2"] }

\* util.get_cpvstr(pkg)
get_cpvstr(pkg) == pkg.category \o "/" \o pkg.package \o "-" \o pkg.version

\* Python's string order on the record identities.
CpvRank == [c \in {get_cpvstr(p) : p \in Pkgs} |->
            CASE c = "dev-a/foo-1" -> 1 [] c = "dev-a/foo-2" -> 2]

CpvLess(a, b) == CpvRank[a] < CpvRank[b]

\* Python's string order on the checksum algorithm names.
ChfRank == [c \in {"sha256", "sha512", "size"} |->
            CASE c = "sha256" -> 1 [] c = "sha512" -> 2 [] c = "size" -> 3]

\* "%x" % val
HexDigit == <<"0", "1", "2", "3", "4", "5", "6", "7", "8", "9",
              "a", "b", "c", "d", "e", "f">>

RECURSIVE Hex(_)
Hex(n) == IF n < 16 THEN HexDigit[n + 1] ELSE Hex(n \div 16) \o HexDigit[(n % 16) + 1]

\* reformat_chksums, on one (chf, val1, val2) triple
reformat_chksum(t) ==
    IF t[1] = "size" THEN t ELSE <<t[1], Hex(t[2]), Hex(t[3])>>

reformat_chksums(iterable) == [i \in DOMAIN iterable |-> reformat_chksum(iterable[i])]

\* ConflictingChksums._sorter: operator.itemgetter(0) as the sort key
ChksumsSorterLess(a, b) == ChfRank[a[1]] < ChfRank[b[1]]

\* ConflictingChksums without the two sorts: the fields in encounter order.
ConflictingChksumsEncounterOrder(pkg, filename, chksums, others) ==
    [cls |-> "ConflictingChksums",
     category |-> pkg.category, package |-> pkg.package, version |-> pkg.version,
     filename |-> filename,
     chksums |-> reformat_chksums(chksums),
     others |-> others, others_list |-> ""]

\* ConflictingChksums keeping the list it is given as its field others: the
\* field is the seen-list object of the filename.
ConflictingChksumsAliased(pkg, filename, chksums, others) ==
    [cls |-> "ConflictingChksums",
     category |-> pkg.category, package |-> pkg.package, version |-> pkg.version,
     filename |-> filename,
     chksums |-> SortSeq(reformat_chksums(chksums), ChksumsSorterLess),
     others |-> others, others_list |-> filename]

\* ConflictingChksums.__init__.  others is the seen-list of the filename, a
\* list object of the detector; tuple(sorted(others)) makes the field an
\* object of its own.  others_list names the filename whose seen-list object
\* the field is, "" when it is none.
ConflictingChksums(pkg, filename, chksums, others) ==
    [cls |-> "ConflictingChksums",
     category |-> pkg.category, package |-> pkg.package, version |-> pkg.version,
     filename |-> filename,
     chksums |-> SortSeq(reformat_chksums(chksums), ChksumsSorterLess),
     others |-> SortSeq(others, CpvLess), others_list |-> ""]

\* The checksum maps (chf -> digest) the fetchables of the scan declare.
ChksumMaps ==
    { [c \in {"sha256"} |-> 10],
      [c \in {"sha256"} |-> 11],
      [c \in {"sha256", "sha512"} |-> IF c = "sha256" THEN 10 ELSE 26],
      [c \in {"sha512"} |-> 27],
      [c \in {"sha256", "sha512", "size"} |->
          IF c = "sha256" THEN 10 ELSE IF c = "sha512" THEN 26 ELSE 5],
      [c \in {"sha256", "sha512", "size"} |->
          IF c = "sha256" THEN 11 ELSE IF c = "sha512" THEN 27 ELSE 6] }

\* A fetchable: uri.filename and uri.chksums.
Uris == [filename : {"a.tar"}, chksums : ChksumMaps] \cup
        [filename : {"b.tar"}, chksums : {[c \in {"sha256"} |-> 10]}]

\* pkg.fetchables, flattened: one fetchable, or two of the file a.tar.
FetchableLists ==
    {<<u>> : u \in Uris} \cup
    {<<u, v>> : u \in {x \in Uris : x.filename = "a.tar" /\ DOMAIN x.chksums = {"sha256"}
                                   /\ x.chksums["sha256"] = 10},
                v \in {x \in Uris : DOMAIN x.chksums = {"sha256"}}}

\* The orders in which a dict with these keys may be iterated.
IterOrders(keys) ==
    {s \in [1..Cardinality(keys) -> keys] : Range(s) = keys}

\* Conflicts with the stored value before the new one in each triple.
RECURSIVE ConflictsSwapped(_, _, _, _)
ConflictsSwapped(chksums, reqed_chksums, order, i) ==
    IF i > Len(order) THEN <<>>
    ELSE LET chf == order[i]
             val == chksums[chf]
         IN (IF chf \in DOMAIN reqed_chksums /\ reqed_chksums[chf] # val
             THEN << <<chf, reqed_chksums[chf], val>> >>
             ELSE <<>>) \o ConflictsSwapped(chksums, reqed_chksums, order, i + 1)

\* Conflicts without the test oval != val: every common algorithm conflicts.
RECURSIVE ConflictsAnyCommon(_, _, _, _)
ConflictsAnyCommon(chksums, reqed_chksums, order, i) ==
    IF i > Len(order) THEN <<>>
    ELSE LET chf == order[i]
             val == chksums[chf]
         IN (IF chf \in DOMAIN reqed_chksums
             THEN << <<chf, val, reqed_chksums[chf]>> >>
             ELSE <<>>) \o ConflictsAnyCommon(chksums, reqed_chksums, order, i + 1)

\* The loop over uri.chksums.iteritems() in the order given: the conflicts list.
RECURSIVE Conflicts(_, _, _, _)
Conflicts(chksums, reqed_chksums, order, i) ==
    IF i > Len(order) THEN <<>>
    ELSE LET chf == order[i]
             val == chksums[chf]
         IN (IF chf \in DOMAIN reqed_chksums /\ reqed_chksums[chf] # val
             THEN << <<chf, val, reqed_chksums[chf]>> >>
             ELSE <<>>) \o Conflicts(chksums, reqed_chksums, order, i + 1)

\* d[k] = v on a dict d
DictSet(d, k, v) == [x \in DOMAIN d \cup {k} |-> IF x = k THEN v ELSE d[x]]

\* StoredEntry storing the checksums of the conflicting record: last seen wins.
StoredEntryLastSeen(existing_, uri, conflicts) ==
    IF conflicts # <<>> THEN <<uri.chksums, existing_[2]>>
    ELSE existing_

\* The entry _fetchables holds for the filename after the if/elif on conflicts
\* (before the append to the seen-list): existing_ is the local variable
\* existing, the tuple (chksums, seen).  The elif compares with the length of
\* that tuple and stores the tuple it read.
StoredEntry(existing_, uri, conflicts) ==
    IF conflicts # <<>> THEN existing_
    ELSE IF Cardinality(DOMAIN uri.chksums) > Len(existing_) THEN existing_
    ELSE existing_

\* list.append(x) on the seen-list of a filename, as the Findings see it: a
\* Finding whose field others is that list object has the element appended.
AppendSeen(reps, filename, x) ==
    [k \in DOMAIN reps |->
        IF reps[k].others_list = filename
        THEN [reps[k] EXCEPT !.others = Append(@, x)]
        ELSE reps[k]]

\* FeedUri appending to the seen-list only when the declaration conflicted.
FeedUriAppendOnConflict(st, pkg, uri, order, n) ==
    IF uri.filename \in DOMAIN st.fetchables
    THEN LET existing_ == st.fetchables[uri.filename]
             reqed_chksums == existing_[1]
             conflicts == Conflicts(uri.chksums, reqed_chksums, order, 1)
             rep == IF conflicts # <<>>
                    THEN Append(st.reports,
                                ConflictingChksums(pkg, uri.filename, conflicts, existing_[2]))
                    ELSE st.reports
             stored == StoredEntry(existing_, uri, conflicts)
             appended == IF conflicts # <<>>
                         THEN <<stored[1], Append(stored[2], get_cpvstr(pkg))>>
                         ELSE stored
         IN [fetchables |-> DictSet(st.fetchables, uri.filename, appended),
             reports |-> rep,
             log |-> Append(st.log,
                      [feed |-> n, pkg |-> pkg, filename |-> uri.filename,
                       chksums |-> uri.chksums, seen |-> TRUE,
                       reqed_chksums |-> reqed_chksums,
                       emitted |-> conflicts # <<>>,
                       finding |-> IF conflicts # <<>> THEN Len(rep) ELSE 0])]
    ELSE [fetchables |-> DictSet(st.fetchables, uri.filename,
                                 <<uri.chksums, <<get_cpvstr(pkg)>> >>),
          reports |-> st.reports,
          log |-> Append(st.log,
                   [feed |-> n, pkg |-> pkg, filename |-> uri.filename,
                    chksums |-> uri.chksums, seen |-> FALSE,
                    reqed_chksums |-> <<>>, emitted |-> FALSE, finding |-> 0])]

\* The body of the loop of ConflictingDigests.feed for one fetchable: st holds
\* _fetchables, reports and log; order is the iteration order of uri.chksums.
FeedUri(st, pkg, uri, order, n) ==
    IF uri.filename \in DOMAIN st.fetchables
    THEN LET existing_ == st.fetchables[uri.filename]
             reqed_chksums == existing_[1]
             conflicts == Conflicts(uri.chksums, reqed_chksums, order, 1)
             \* reporter.add_report(ConflictingChksums(..., existing[1]))
             rep == IF conflicts # <<>>
                    THEN Append(st.reports,
                                ConflictingChksums(pkg, uri.filename, conflicts, existing_[2]))
                    ELSE st.reports
             stored == StoredEntry(existing_, uri, conflicts)
             \* existing[1].append(util.get_cpvstr(pkg))
             appended == <<stored[1], Append(stored[2], get_cpvstr(pkg))>>
         IN [fetchables |-> DictSet(st.fetchables, uri.filename, appended),
             reports |-> AppendSeen(rep, uri.filename, get_cpvstr(pkg)),
             log |-> Append(st.log,
                      [feed |-> n, pkg |-> pkg, filename |-> uri.filename,
                       chksums |-> uri.chksums, seen |-> TRUE,
                       reqed_chksums |-> reqed_chksums,
                       emitted |-> conflicts # <<>>,
                       finding |-> IF conflicts # <<>> THEN Len(rep) ELSE 0])]
    ELSE [fetchables |-> DictSet(st.fetchables, uri.filename,
                                 <<uri.chksums, <<get_cpvstr(pkg)>> >>),
          reports |-> st.reports,
          log |-> Append(st.log,
                   [feed |-> n, pkg |-> pkg, filename |-> uri.filename,
                    chksums |-> uri.chksums, seen |-> FALSE,
                    reqed_chksums |-> <<>>, emitted |-> FALSE, finding |-> 0])]

\* ConflictingDigests.feed(pkg, reporter): the loop over the fetchables.
RECURSIVE FeedUris(_, _, _, _, _, _)
FeedUris(st, pkg, uris, orders, n, i) ==
    IF i > Len(uris) THEN st
    ELSE FeedUris(FeedUri(st, pkg, uris[i], orders[i], n), pkg, uris, orders, n, i + 1)

\* Number of ConflictingDigests.feed calls explored.
MaxFeeds == 3

InitDigests ==
    /\ _fetchables = <<>>
    /\ reports = <<>>
    /\ log = <<>>
    /\ nfeeds = 0

DigestsFeed ==
    /\ nfeeds < MaxFeeds
    /\ \E pkg \in Pkgs, uris \in FetchableLists :
         \E orders \in [DOMAIN uris -> UNION {IterOrders(DOMAIN c) : c \in ChksumMaps}] :
           /\ \A i \in DOMAIN uris : orders[i] \in IterOrders(DOMAIN uris[i].chksums)
           /\ LET st == FeedUris([fetchables |-> _fetchables, reports |-> reports,
                                  log |-> log], pkg, uris, orders, nfeeds + 1, 1)
              IN /\ _fetchables' = st.fetchables
                 /\ reports' = st.reports
                 /\ log' = st.log
                 /\ nfeeds' = nfeeds + 1

\* DigestsFinish without self._fetchables.clear().
DigestsFinishKeeps ==
    /\ log' = <<>>
    /\ UNCHANGED <<_fetchables, reports, nfeeds>>

\* ConflictingDigests.finish(reporter)
DigestsFinish ==
    /\ _fetchables' = <<>>
    /\ log' = <<>>
    /\ UNCHANGED <<reports, nfeeds>>

(***************************************************************************)
(*                      feeds.py: QueryCache                               *)
(***************************************************************************)

\* The feed units: versioned packages.
Items == [category : {"dev-a", "dev-b"}, package : {"foo", "bar"}, version : {"1", "2"}]

\* An optional value: <<>> is Python's None, <<x>> the value x.
Some(x) == <<x>>

\* QueryCache._version, _package and _category
_version(item) == item
_package(item) == item.category \o "/" \o item.package
_category(item) == item.category

\* self._keyfunc = getattr(self, f'_{options.query_caching_freq}')
_keyfunc(f, item) ==
    CASE f = "version" -> _version(item)
      [] f = "package" -> _package(item)
      [] f = "category" -> _category(item)

\* The queries checks memoize and their results.
QueryKeys == {"q1", "q2"}
QueryVals == {"r1", "r2"}

\* The contents a dict over the query keys may have.
CacheContents == UNION {[K -> QueryVals] : K \in SUBSET QueryKeys}

\* d.update(e)
DictUpdate(d, e) == [k \in DOMAIN d \cup DOMAIN e |-> IF k \in DOMAIN e THEN e[k] ELSE d[k]]

\* QueryCacheFeed without the clear: the key is updated, the cache kept.
QueryCacheFeedKeepsCache(cache, key_, f, item) ==
    [query_cache |-> cache, key |-> Some(_keyfunc(f, item))]

\* QueryCacheFeed clearing on every unit.
QueryCacheFeedAlwaysClears(cache, key_, f, item) ==
    [query_cache |-> <<>>, key |-> Some(_keyfunc(f, item))]

\* QueryCache.feed up to the call of super().feed(item): the cache and the key.
QueryCacheFeed(cache, key_, f, item) ==
    LET key == _keyfunc(f, item)
    IN IF Some(key) # key_
       THEN [query_cache |-> <<>>, key |-> Some(key)]     \* self.query_cache.clear()
       ELSE [query_cache |-> cache, key |-> key_]

NoItem == [category |-> "", package |-> "", version |-> ""]

NoQFeed == [fed |-> 0, item |-> NoItem, prev_item |-> NoItem,
            cache_before |-> <<>>, cache_downstream |-> <<>>]

\* QueryCache.__init__
InitQuery ==
    /\ query_cache = <<>>
    /\ _key = <<>>
    /\ freq \in {"version", "package", "category"}
    /\ qfeed = NoQFeed

\* QueryCache.feed(item); the checks downstream memoize in query_cache while
\* super().feed(item) runs.
QueryFeed ==
    \E item \in Items, memoized \in CacheContents :
       LET r == QueryCacheFeed(query_cache, _key, freq, item)
       IN /\ _key' = r.key
          /\ query_cache' = DictUpdate(r.query_cache, memoized)
          /\ qfeed' = [fed |-> IF qfeed.fed = 0 THEN 1 ELSE 2,
                       item |-> item, prev_item |-> qfeed.item,
                       cache_before |-> query_cache,
                       cache_downstream |-> r.query_cache]
          /\ UNCHANGED freq

(***************************************************************************)
(*                      feeds.py: EvaluateDepSet                           *)
(***************************************************************************)

\* The units fed: the records of one category, two versions of two packages.
DepItems == {item \in Items : item.category = "dev-a"}

\* The dependency attributes checks evaluate.
Attrs == {"depends", "rdepends"}

\* depset.known_conditionals of a record's attribute: the flags its
\* conditionals name, some with a use dep default.
known_conditionals(pkg, attr) ==
    IF attr = "depends" THEN {"ssl(+)", "doc"}
    ELSE IF pkg.version = "1" THEN {"ssl"} ELSE {"ssl", "doc(-)"}

\* pkg.<attr>: the depset of a record's attribute.
Depset(pkg, attr) ==
    [pkg |-> pkg, attr |-> attr, known_conditionals |-> known_conditionals(pkg, attr)]

\* x[:-3] if x[-1] == ')' else x
StripDefault(x) ==
    CASE x = "ssl(+)" -> "ssl"
      [] x = "doc(-)" -> "doc"
      [] OTHER -> x

\* The profiles and, of each, the flags its use settings force or mask
\* (immutable) and enable.
ProfileNames == {"p1", "p2", "p3"}
ProfileUse ==
    [p \in ProfileNames |->
        CASE p = "p1" -> [immutable |-> {"ssl"}, enabled |-> {"ssl"}]
          [] p = "p2" -> [immutable |-> {"ssl"}, enabled |-> {"ssl", "test"}]
          [] p = "p3" -> [immutable |-> {}, enabled |-> {"doc"}]]

\* profiles[0].identify_use(pkg, diuse): (immutable, enabled) among diuse.
identify_use(profile, pkg, diuse) ==
    <<ProfileUse[profile].immutable \cap diuse, ProfileUse[profile].enabled \cap diuse>>

\* The profile groups self.profiles.identify_profiles(pkg) may answer with.
ProfileGroups ==
    { << <<"p1">>, <<"p3">>, <<"p2">> >>,
      << <<"p3", "p1">>, <<"p2">> >>,
      <<>> }

\* depset.evaluate_depset(enabled, tristate_filter=immutable)
evaluate_depset(depset, enabled, tristate_filter) ==
    [attr |-> depset.attr, enabled |-> enabled, tristate_filter |-> tristate_filter]

\* collapsed.setdefault((immutable, enabled), []).extend(profiles), on a dict
\* kept as the sequence of its items in insertion order.
SetDefaultExtend(collapsed, k, profiles_) ==
    IF \E i \in DOMAIN collapsed : collapsed[i][1] = k
    THEN [i \in DOMAIN collapsed |->
            IF collapsed[i][1] = k THEN <<k, collapsed[i][2] \o profiles_>>
            ELSE collapsed[i]]
    ELSE Append(collapsed, <<k, profiles_>>)

\* The loop of _identify_common_depsets over profile_grps from group i on.
RECURSIVE Collapse(_, _, _, _, _)
Collapse(collapsed, profile_grps, pkg, diuse, i) ==
    IF i > Len(profile_grps) THEN collapsed
    ELSE LET profiles_ == profile_grps[i]
         IN Collapse(SetDefaultExtend(collapsed,
                                      identify_use(profiles_[1], pkg, diuse), profiles_),
                     profile_grps, pkg, diuse, i + 1)

\* EvaluateDepSet._identify_common_depsets(pkg, depset): ppc is
\* pkg_profiles_cache, grps what identify_profiles answers.  The result, the
\* cache after the call and whether the profile groups came from the cache.
_identify_common_depsets(ppc, grps, pkg, depset) ==
    LET cached == pkg \in DOMAIN ppc
        profile_grps == IF cached THEN ppc[pkg] ELSE grps
        diuse == {StripDefault(x) : x \in depset.known_conditionals}
        collapsed == Collapse(<<>>, profile_grps, pkg, diuse, 1)
    IN [result |-> [i \in DOMAIN collapsed |->
                       <<evaluate_depset(depset, collapsed[i][1][2], collapsed[i][1][1]),
                         collapsed[i][2]>>],
        pkg_profiles_cache |-> IF cached THEN ppc ELSE DictSet(ppc, pkg, profile_grps),
        profiles_served |-> cached]

\* EvaluateDepSet.collapse_evaluate_depset(pkg, attr, depset): st holds the two
\* caches; the result, the caches after the call and what the caches served.
collapse_evaluate_depset(st, grps, pkg, attr, depset) ==
    IF <<pkg, attr>> \in DOMAIN st.pkg_evaluate_depsets_cache
    THEN [pkg_evaluate_depsets_cache |-> st.pkg_evaluate_depsets_cache,
          pkg_profiles_cache |-> st.pkg_profiles_cache,
          result |-> st.pkg_evaluate_depsets_cache[<<pkg, attr>>],
          served |-> TRUE, profiles_served |-> FALSE]
    ELSE LET r == _identify_common_depsets(st.pkg_profiles_cache, grps, pkg, depset)
         IN [pkg_evaluate_depsets_cache |->
                 DictSet(st.pkg_evaluate_depsets_cache, <<pkg, attr>>, r.result),
             pkg_profiles_cache |-> r.pkg_profiles_cache,
             result |-> r.result,
             served |-> FALSE, profiles_served |-> r.profiles_served]

\* Calls of collapse_evaluate_depset a unit's checks make, at most.
MaxCalls == 2

\* The attributes the checks downstream evaluate for a unit, call by call.
CallSeqs == UNION {[1..n -> Attrs] : n \in 0..MaxCalls}

\* super().feed(item): the checks downstream call collapse_evaluate_depset on
\* the unit, attribute by attribute, from call i on.  st holds the two caches
\* and the calls made so far with what they were served.
RECURSIVE Downstream(_, _, _, _, _)
Downstream(st, grps, item, attrs, i) ==
    IF i > Len(attrs) THEN st
    ELSE LET r == collapse_evaluate_depset(st, grps, item, attrs[i],
                                           Depset(item, attrs[i]))
         IN Downstream([pkg_evaluate_depsets_cache |-> r.pkg_evaluate_depsets_cache,
                        pkg_profiles_cache |-> r.pkg_profiles_cache,
                        calls |-> Append(st.calls,
                                    [attr |-> attrs[i], served |-> r.served,
                                     profiles_served |-> r.profiles_served,
                                     result |-> r.result])],
                       grps, item, attrs, i + 1)

\* EvaluateDepSetFeed without the two calls of clear().
EvaluateDepSetFeedKeeps(depsets_cache, profiles_cache, grps, item, attrs) ==
    LET st == Downstream([pkg_evaluate_depsets_cache |-> depsets_cache,
                          pkg_profiles_cache |-> profiles_cache, calls |-> <<>>],
                         grps, item, attrs, 1)
    IN [pkg_evaluate_depsets_cache |-> st.pkg_evaluate_depsets_cache,
        pkg_profiles_cache |-> st.pkg_profiles_cache,
        downstream |-> st]

\* EvaluateDepSet.feed(item): super().feed(item), then both caches cleared.
\* downstream is what the caches held, and the calls made, when super().feed
\* returned.
EvaluateDepSetFeed(depsets_cache, profiles_cache, grps, item, attrs) ==
    LET st == Downstream([pkg_evaluate_depsets_cache |-> depsets_cache,
                          pkg_profiles_cache |-> profiles_cache, calls |-> <<>>],
                         grps, item, attrs, 1)
    IN [pkg_evaluate_depsets_cache |-> <<>>,      \* self.pkg_evaluate_depsets_cache.clear()
        pkg_profiles_cache |-> <<>>,              \* self.pkg_profiles_cache.clear()
        downstream |-> st]

NoDFeed == [fed |-> 0, item |-> NoItem, prev_item |-> NoItem, prev_attrs |-> {},
            calls |-> <<>>, memoized |-> {}, profiles_memoized |-> {}]

\* EvaluateDepSet.__init__(options, profiles)
InitDepSet ==
    /\ pkg_evaluate_depsets_cache = <<>>
    /\ pkg_profiles_cache = <<>>
    /\ profiles \in ProfileGroups
    /\ dfeed = NoDFeed

\* One call of EvaluateDepSet.feed(item) with the calls its checks make.
DepSetFeed ==
    \E item \in DepItems, attrs \in CallSeqs :
       LET r == EvaluateDepSetFeed(pkg_evaluate_depsets_cache, pkg_profiles_cache,
                                   profiles, item, attrs)
       IN /\ pkg_evaluate_depsets_cache' = r.pkg_evaluate_depsets_cache
          /\ pkg_profiles_cache' = r.pkg_profiles_cache
          /\ dfeed' = [fed |-> IF dfeed.fed = 0 THEN 1 ELSE 2,
                       item |-> item, prev_item |-> dfeed.item,
                       prev_attrs |-> {dfeed.calls[k].attr : k \in DOMAIN dfeed.calls},
                       calls |-> r.downstream.calls,
                       memoized |-> DOMAIN r.downstream.pkg_evaluate_depsets_cache,
                       profiles_memoized |-> DOMAIN r.downstream.pkg_profiles_cache]
          /\ UNCHANGED profiles

(***************************************************************************)
(*            repo_metadata.py: ConflictManifestDigest                     *)
(***************************************************************************)

\* The distfiles of the package and Python's string order on their names.
DistFiles == {"x.tar", "y.tar"}
DistRank == [f \in DistFiles |-> IF f = "x.tar" THEN 1 ELSE 2]
DistLess(a, b) == DistRank[a] < DistRank[b]

\* A set of distfile names as the sorted tuple Python builds from it.
SortedDist(S) ==
    LET any == CHOOSE s \in [1..Cardinality(S) -> S] : Range(s) = S
    IN SortSeq(any, DistLess)

\* Python's order on (chf, val1, val2) triples of distinct chf.
TripleLess(a, b) == ChfRank[a[1]] < ChfRank[b[1]]

\* The checksums the Manifest declares for a distfile.
ManifestChk == [c \in {"sha256", "size"} |-> IF c = "sha256" THEN 10 ELSE 5]

\* The checksums a digest file may declare for a distfile: the Manifest's
\* sha256, another sha256, another sha256 and size, another sha256 with the
\* Manifest's size, and a further algorithm.
DigestChk ==
    { [c \in {"sha256"} |-> 10],
      [c \in {"sha256"} |-> 11],
      [c \in {"sha256", "size"} |-> IF c = "sha256" THEN 11 ELSE 6],
      [c \in {"sha256", "size"} |-> IF c = "sha256" THEN 11 ELSE 5],
      [c \in {"sha256", "sha512"} |-> IF c = "sha256" THEN 10 ELSE 26] }

\* The digests of one record: distfile -> checksums.
DigestMaps ==
    { <<>> } \cup
    { [f \in {"x.tar"} |-> c] : c \in DigestChk } \cup
    { [f \in {"y.tar"} |-> [c \in {"sha256"} |-> 10]],
      [f \in DistFiles |-> [c \in {"sha256"} |-> IF f = "x.tar" THEN 10 ELSE 11]],
      [f \in DistFiles |-> IF f = "x.tar"
                           THEN [c \in {"sha256", "size"} |-> IF c = "sha256" THEN 11 ELSE 6]
                           ELSE [c \in {"sha256"} |-> 10]] }

\* manifest.distfiles
ManifestMaps ==
    { <<>>, [f \in {"x.tar"} |-> ManifestChk], [f \in DistFiles |-> ManifestChk] }

RepoIds == {"gentoo", "overlay"}

\* The records a package unit may hold: repo, the distfile whose digest is
\* unavailable ("": none) and the digests repo._get_digests finds for the
\* others.
PkgShapes ==
    [repo : {"gentoo"}, digests : DigestMaps, missing : {""}] \cup
    [repo : {"gentoo"}, digests : {<<>>, [f \in {"y.tar"} |-> [c \in {"sha256"} |-> 10]]},
     missing : {"x.tar"}] \cup
    [repo : {"overlay"}, digests : {<<>>, [f \in {"y.tar"} |-> [c \in {"sha256"} |-> 10]]},
     missing : {""}]

\* The repositories: whether the repo has _get_digests, and the Manifest of
\* the package in it.
RepoEnvs ==
    { [r \in RepoIds |->
         IF r = "gentoo"
         THEN [has_get_digests |-> TRUE, manifest |-> [version |-> v, distfiles |-> m]]
         ELSE [has_get_digests |-> g, manifest |-> [version |-> 2, distfiles |-> m]]] :
      v \in {1, 2}, g \in BOOLEAN, m \in ManifestMaps }

\* Number of records in a package unit.
MaxUnit == 3

\* itertools.groupby(full_pkgset, self.repo_grabber): the maximal runs of
\* consecutive records of one repo, as sequences of positions.
RECURSIVE groupby(_, _)
groupby(unit, i) ==
    IF i > Len(unit) THEN <<>>
    ELSE LET rest == groupby(unit, i + 1) IN
         IF rest # <<>> /\ unit[Head(rest)[1]].repo = unit[i].repo
         THEN <<(<<i>> \o Head(rest))>> \o Tail(rest)
         ELSE <<(<<i>>)>> \o rest

ManifestDigestConflict(pkg, filename, msg) ==
    [cls |-> "ManifestDigestConflict", version |-> pkg.version, filename |-> filename,
     msg |-> msg, files |-> <<>>]

\* Some order in which a set is iterated.
SetIter(S) == CHOOSE s \in IterOrders(S) : TRUE

\* OrphanedManifestDist.__init__; files_ is the set in the order in which it
\* is iterated.
OrphanedManifestDist(pkg, files_) ==
    [cls |-> "OrphanedManifestDist", version |-> pkg.version, filename |-> "",
     msg |-> [kind |-> "", chksums |-> <<>>], files |-> SortSeq(files_, DistLess)]

MissingDigest(pkg, filename) ==
    [cls |-> "MissingDigest", version |-> pkg.version, filename |-> filename,
     msg |-> [kind |-> "", chksums |-> <<>>], files |-> <<>>]

\* ManifestConflicts without the test mchksum[chf] != chksum[chf]: every
\* common algorithm conflicts.
ManifestConflictsAnyCommon(mchksum, chksum) ==
    LET common == DOMAIN chksum \cap DOMAIN mchksum
        any == CHOOSE s \in [1..Cardinality(common) -> common] : Range(s) = common
    IN [i \in DOMAIN any |-> <<any[i], mchksum[any[i]], chksum[any[i]]>>]

\* The conflicts list of check_pkg for one distfile: the common algorithms
\* whose digests differ.  (The set is iterated in any order; the list is
\* sorted before it is used.)
ManifestConflicts(mchksum, chksum) ==
    LET differ == {chf \in DOMAIN chksum \cap DOMAIN mchksum : mchksum[chf] # chksum[chf]}
        any == CHOOSE s \in [1..Cardinality(differ) -> differ] : Range(s) = differ
    IN [i \in DOMAIN any |-> <<any[i], mchksum[any[i]], chksum[any[i]]>>]

\* tuple(sorted(reformat_chksums(conflicts))), the checksum tuple of the
\* message of a conflict Finding.
SortedConflicts(conflicts) == SortSeq(reformat_chksums(conflicts), TripleLess)

\* ConflictManifestDigest.check_pkg: the loop over digests.iteritems() in the
\* order given.  st holds the Findings reported and the exception raised.
\* "chksum conflict- %r" % tuple(...) formats a tuple of one triple; with more
\* triples the tuple holds more arguments than the format and % raises
\* TypeError.
RECURSIVE check_pkg(_, _, _, _, _, _)
check_pkg(st, pkg, mdigests, digests, order, i) ==
    IF i > Len(order) \/ st.raised # "" THEN st
    ELSE LET fname == order[i]
             chksum == digests[fname]
         IN IF fname \notin DOMAIN mdigests
            THEN check_pkg([st EXCEPT !.reports = Append(@,
                               ManifestDigestConflict(pkg, fname,
                                  [kind |-> "missing in manifest", chksums |-> <<>>]))],
                           pkg, mdigests, digests, order, i + 1)
            ELSE LET conflicts == ManifestConflicts(mdigests[fname], chksum) IN
                 IF conflicts = <<>>
                 THEN check_pkg(st, pkg, mdigests, digests, order, i + 1)
                 ELSE IF Len(conflicts) > 1
                 THEN [st EXCEPT !.raised = "TypeError"]
                 ELSE check_pkg([st EXCEPT !.reports = Append(@,
                               ManifestDigestConflict(pkg, fname,
                                  [kind |-> "chksum conflict",
                                   chksums |-> SortedConflicts(conflicts)]))],
                           pkg, mdigests, digests, order, i + 1)

\* FeedPkg counting the digests of a record whose fetch failed as matched.
FeedPkgCountsMissing(st, pkg, mdigests, order) ==
    LET s1 == [st EXCEPT !.fetched = Append(@, pkg.version)] IN
    IF pkg.missing # ""
    THEN [s1 EXCEPT !.reports = Append(@, MissingDigest(pkg, pkg.missing)),
                    !.old_digests = @ \cup DOMAIN pkg.digests]
    ELSE LET c == check_pkg(s1, pkg, mdigests, pkg.digests, order, 1)
         IN IF c.raised # "" THEN c
            ELSE [c EXCEPT !.old_digests = @ \cup DOMAIN pkg.digests]

\* The try/except of feed for one record: st also holds old_digests and
\* fetched, the records f was called for.
FeedPkg(st, pkg, mdigests, order) ==
    LET s1 == [st EXCEPT !.fetched = Append(@, pkg.version)] IN
    IF pkg.missing # ""
    \* f(pkg, force_manifest1=True) raises MissingChksum
    THEN [s1 EXCEPT !.reports = Append(@, MissingDigest(pkg, pkg.missing))]
    ELSE LET c == check_pkg(s1, pkg, mdigests, pkg.digests, order, 1)
         IN IF c.raised # "" THEN c
            ELSE [c EXCEPT !.old_digests = @ \cup DOMAIN pkg.digests]

\* The loop over the records of one group.
RECURSIVE FeedPkgs(_, _, _, _, _, _)
FeedPkgs(st, unit, pkgset, mdigests, orders, k) ==
    IF k > Len(pkgset) \/ st.raised # "" THEN st
    ELSE FeedPkgs(FeedPkg(st, unit[pkgset[k]], mdigests, orders[pkgset[k]]),
                  unit, pkgset, mdigests, orders, k + 1)

\* FeedGroups without the two guards: every group is checked.
RECURSIVE FeedGroupsNoGuards(_, _, _, _, _, _)
FeedGroupsNoGuards(st, env, unit, groups, orders, g) ==
    IF g > Len(groups) \/ st.raised # "" THEN st
    ELSE LET pkgset == groups[g]
             mdigests == env[unit[pkgset[1]].repo].manifest.distfiles
             r == FeedPkgs([st EXCEPT !.old_digests = {}], unit, pkgset, mdigests, orders, 1)
             orphaned == DOMAIN mdigests \ r.old_digests
         IN FeedGroupsNoGuards(IF r.raised = "" /\ orphaned # {}
                               THEN [r EXCEPT !.reports = Append(@,
                                        OrphanedManifestDist(unit[pkgset[1]], SetIter(orphaned)))]
                               ELSE r,
                               env, unit, groups, orders, g + 1)

\* The loop of ConflictManifestDigest.feed over the groups.
RECURSIVE FeedGroups(_, _, _, _, _, _)
FeedGroups(st, env, unit, groups, orders, g) ==
    IF g > Len(groups) \/ st.raised # "" THEN st
    ELSE LET pkgset == groups[g]
             repo == env[unit[pkgset[1]].repo]
             manifest == repo.manifest
         IN IF manifest.version = 1 \/ ~repo.has_get_digests
            THEN FeedGroups(st, env, unit, groups, orders, g + 1)
            ELSE LET mdigests == manifest.distfiles
                     r == FeedPkgs([st EXCEPT !.old_digests = {}], unit, pkgset,
                                   mdigests, orders, 1)
                     orphaned == DOMAIN mdigests \ r.old_digests
                 IN FeedGroups(IF r.raised = "" /\ orphaned # {}
                               THEN [r EXCEPT !.reports = Append(@,
                                        OrphanedManifestDist(unit[pkgset[1]], SetIter(orphaned)))]
                               ELSE r,
                               env, unit, groups, orders, g + 1)

\* ConflictManifestDigest.feed(full_pkgset, reporter)
ManifestFeed(env, unit, orders) ==
    FeedGroups([reports |-> <<>>, raised |-> "", old_digests |-> {}, fetched |-> <<>>],
               env, unit, groupby(unit, 1), orders, 1)

NoMCall == [called |-> FALSE, unit |-> <<>>, reports |-> <<>>, raised |-> "",
            fetched |-> <<>>]

InitManifest ==
    /\ repos \in RepoEnvs
    /\ mcall = NoMCall

\* The order in which a dict of digests is iterated: dicts of the same keys
\* built the same way iterate alike; whether that is the sorted order is open.
DictOrder(d, reversed) ==
    LET sorted == SortedDist(DOMAIN d)
    IN IF reversed THEN [i \in DOMAIN sorted |-> sorted[Len(sorted) + 1 - i]] ELSE sorted

\* One package unit fed to ConflictManifestDigest.  The check keeps nothing
\* from one unit to the next, so a behaviour feeds one unit.
ManifestDigestFeed ==
    /\ ~mcall.called
    /\ \E n \in 1..MaxUnit, reversed \in BOOLEAN :
      \E shapes \in [1..n -> PkgShapes] :
        LET unit == [i \in 1..n |->
                       [repo |-> shapes[i].repo, version |-> i,
                        digests |-> shapes[i].digests, missing |-> shapes[i].missing]]
            orders == [i \in 1..n |-> DictOrder(unit[i].digests, reversed)]
            r == ManifestFeed(repos, unit, orders)
        IN /\ mcall' = [called |-> TRUE, unit |-> unit, reports |-> r.reports,
                        raised |-> r.raised, fetched |-> r.fetched]
           /\ UNCHANGED repos

(***************************************************************************)
(*       repo_metadata.py: UnusedGlobalFlags and UnusedLicense             *)
(***************************************************************************)

\* The flags of use.desc and the flags a record may name in its iuse, with
\* Python's string order on them.
GlobalFlags == {"doc", "ssl"}
PkgFlags == {"doc", "ssl", "test"}
FlagRank == [f \in PkgFlags |-> CASE f = "doc" -> 1 [] f = "ssl" -> 2 [] f = "test" -> 3]
FlagLess(a, b) == FlagRank[a] < FlagRank[b]

\* The license files, with Python's string order on their names.
Licenses == {"BSD", "MIT"}
LicenseRank == [l \in Licenses |-> IF l = "BSD" THEN 1 ELSE 2]
LicenseLess(a, b) == LicenseRank[a] < LicenseRank[b]

\* pkg.license: a sequence of groups of license names (a plain license is a
\* group of one, an any-of group holds several).
LicenseExprs ==
    { <<>>, << <<"BSD">> >>, << <<"MIT">> >>, << <<"BSD", "MIT">> >>,
      << <<"MIT">>, <<"BSD">> >> }

\* iflatten_instance(pkg.license): the names at the leaves.
RECURSIVE iflatten_instance(_)
iflatten_instance(license) ==
    IF license = <<>> THEN <<>> ELSE Head(license) \o iflatten_instance(Tail(license))

\* UnusedGlobalFlagsResult.__init__; flags_ is the set in the order in which
\* it is iterated.
UnusedGlobalFlagsResult(flags_) ==
    [cls |-> "UnusedGlobalFlagsResult", flags |-> SortSeq(flags_, FlagLess),
     licenses |-> <<>>]

\* UnusedLicenseReport.__init__; licenses_ is the set in the order in which it
\* is iterated.
UnusedLicenseReport(licenses_) ==
    [cls |-> "UnusedLicenseReport", flags |-> <<>>,
     licenses |-> SortSeq(licenses_, LicenseLess)]

\* FlagsAfterFeed without the subtraction.
FlagsAfterFeedKeeps(flags_, iuse) == flags_

\* UnusedGlobalFlags.feed: self.flags after it.  <<>> is None, <<S>> the set S.
FlagsAfterFeed(flags_, iuse) ==
    IF flags_ # <<>> /\ flags_[1] # {}
    THEN Some(flags_[1] \ iuse)         \* self.flags.difference_update(pkg.iuse)
    ELSE flags_

\* UnusedLicense.feed: self.licenses after it.
LicensesAfterFeed(licenses_, license) ==
    Some(licenses_[1] \ Range(iflatten_instance(license)))

\* The options of a scan: whether target_repo is a SlavedTree, the flags of
\* use.desc, whether the target repo has a licenses directory and what it
\* holds, and the files of each of options.license_dirs.
FoldEnvs ==
    [slaved : {FALSE}, global_iuse : SUBSET GlobalFlags, has_licenses : {FALSE},
     repo_licenses : {{}},
     license_dirs : {<<>>, <<{"BSD"}>>, <<{"BSD"}, {"MIT"}>>, <<{"BSD", "MIT"}, {"MIT"}>>}]
    \cup
    [slaved : {TRUE}, global_iuse : {GlobalFlags}, has_licenses : BOOLEAN,
     repo_licenses : {{"MIT"}}, license_dirs : {<<>>}]

\* Number of records fed to each of the two checks.
MaxFoldFeeds == 2

\* A check before start: nothing built, nothing matched.
NewCheck == [phase |-> "new", built |-> {}, matched |-> {}, n |-> 0]

\* UnusedGlobalFlags.__init__ and UnusedLicense.__init__
InitFold ==
    /\ flags = <<>>
    /\ licenses = <<>>
    /\ fold_reports = <<>>
    /\ \E env \in FoldEnvs :
          fold = [env |-> env, flags |-> NewCheck, licenses |-> NewCheck]

\* UnusedGlobalFlags.start()
UnusedGlobalFlagsStart ==
    /\ fold.flags.phase = "new"
    /\ flags' = IF ~fold.env.slaved THEN Some(fold.env.global_iuse) ELSE flags
    /\ fold' = [fold EXCEPT !.flags.phase = "started",
                            !.flags.built = IF ~fold.env.slaved
                                            THEN fold.env.global_iuse ELSE {}]
    /\ UNCHANGED <<licenses, fold_reports>>

\* UnusedGlobalFlags.feed(pkg, reporter)
UnusedGlobalFlagsFeed ==
    /\ fold.flags.phase = "started" /\ fold.flags.n < MaxFoldFeeds
    /\ \E iuse \in SUBSET PkgFlags :
          /\ flags' = FlagsAfterFeed(flags, iuse)
          /\ fold' = [fold EXCEPT !.flags.matched = @ \cup iuse, !.flags.n = @ + 1]
    /\ UNCHANGED <<licenses, fold_reports>>

\* UnusedGlobalFlags.finish(reporter)
UnusedGlobalFlagsFinish ==
    /\ fold.flags.phase = "started"
    /\ IF flags # <<>> /\ flags[1] # {}
       THEN \E iter \in IterOrders(flags[1]) :
               /\ fold_reports' = Append(fold_reports, UnusedGlobalFlagsResult(iter))
               /\ flags' = Some({})                 \* self.flags.clear()
       ELSE UNCHANGED <<flags, fold_reports>>
    /\ fold' = [fold EXCEPT !.flags.phase = "finished"]
    /\ UNCHANGED licenses

\* UnusedLicense.start()
UnusedLicenseStart ==
    /\ fold.licenses.phase = "new"
    /\ LET found == IF fold.env.slaved
                    THEN (IF fold.env.has_licenses THEN fold.env.repo_licenses ELSE {})
                    ELSE UNION Range(fold.env.license_dirs)
       IN /\ licenses' = Some(found)
          /\ fold' = [fold EXCEPT !.licenses.phase = "started", !.licenses.built = found]
    /\ UNCHANGED <<flags, fold_reports>>

\* UnusedLicense.feed(pkg, reporter)
UnusedLicenseFeed ==
    /\ fold.licenses.phase = "started" /\ fold.licenses.n < MaxFoldFeeds
    /\ \E license \in LicenseExprs :
          /\ licenses' = LicensesAfterFeed(licenses, license)
          /\ fold' = [fold EXCEPT
                        !.licenses.matched =
                            @ \cup UNION {Range(license[i]) : i \in DOMAIN license},
                        !.licenses.n = @ + 1]
    /\ UNCHANGED <<flags, fold_reports>>

\* UnusedLicense.finish(reporter)
UnusedLicenseFinish ==
    /\ fold.licenses.phase = "started"
    /\ IF licenses[1] # {}
       THEN \E iter \in IterOrders(licenses[1]) :
               fold_reports' = Append(fold_reports, UnusedLicenseReport(iter))
       ELSE UNCHANGED fold_reports
    /\ licenses' = <<>>                             \* self.licenses = None
    /\ fold' = [fold EXCEPT !.licenses.phase = "finished"]
    /\ UNCHANGED flags

(***************************************************************************)
(*     deprecated.py: DeprecatedEclass; the multi-value fields of Findings *)
(***************************************************************************)

\* Some entries of DeprecatedEclassReport.blacklist, in the order of the dict
\* (None: no replacement), and Python's string order on the old eclasses.
blacklist == << <<"distutils", "distutils-r1">>, <<"epatch", "(eapply in >= EAPI 6)">>,
                <<"db4-fix", None>> >>

EclassRank == [e \in {"db4-fix", "distutils", "epatch"} |->
               CASE e = "db4-fix" -> 1 [] e = "distutils" -> 2 [] e = "epatch" -> 3]

\* Python's order on the (old, new) items of a dict: the keys are distinct.
ItemLess(a, b) == EclassRank[a[1]] < EclassRank[b[1]]

\* DeprecatedEclass.__init__; eclasses is eclasses.items() in the order of the
\* dict.
DeprecatedEclass(pkg, eclasses) ==
    [cls |-> "DeprecatedEclass",
     category |-> pkg.category, package |-> pkg.package, version |-> pkg.version,
     eclasses |-> SortSeq(eclasses, ItemLess)]

\* s and t hold the same values, each as often in one as in the other.
SameValues(s, t) ==
    /\ Len(s) = Len(t)
    /\ \A x \in Range(s) \cup Range(t) :
          Cardinality({i \in DOMAIN s : s[i] = x}) = Cardinality({i \in DOMAIN t : t[i] = x})

\* The orders in which the values of the non-empty subsets of S can be met.
Encounters(S) == UNION {IterOrders(T) : T \in SUBSET S \ {{}}}

\* The (chf, val1, val2) triples a comparison of two checksum sets can yield.
ConflictTriples == { <<"sha256", 11, 10>>, <<"sha512", 27, 26>>, <<"size", 6, 5>> }

\* The seen-lists of a filename: the identities of the records that declared it.
SeenLists == UNION {[1..n -> {get_cpvstr(p) : p \in Pkgs}] : n \in 1..MaxFeeds}

NoBuilt == [cls |-> "", met |-> <<>>, findings |-> <<>>]

InitFindings == built = NoBuilt

\* The record the Findings are about.
APkg == CHOOSE p \in Pkgs : p.version = "1"

\* ConflictingChksums built from the conflicts and the seen-list of two runs.
BuildConflictingChksums ==
    /\ built = NoBuilt
    /\ \E c1, c2 \in Encounters(ConflictTriples), o1, o2 \in SeenLists :
          /\ SameValues(c1, c2) /\ SameValues(o1, o2)
          /\ built' = [cls |-> "ConflictingChksums",
                       met |-> << <<c1, o1>>, <<c2, o2>> >>,
                       findings |-> <<ConflictingChksums(APkg, "a.tar", c1, o1),
                                      ConflictingChksums(APkg, "a.tar", c2, o2)>>]

\* ManifestDigestConflict built from the conflicts of two runs.
BuildManifestDigestConflict ==
    /\ built = NoBuilt
    /\ \E c1, c2 \in Encounters(ConflictTriples) :
          /\ SameValues(c1, c2)
          /\ built' = [cls |-> "ManifestDigestConflict",
                       met |-> <<c1, c2>>,
                       findings |->
                         <<ManifestDigestConflict([version |-> 1], "x.tar",
                              [kind |-> "chksum conflict", chksums |-> SortedConflicts(c1)]),
                           ManifestDigestConflict([version |-> 1], "x.tar",
                              [kind |-> "chksum conflict", chksums |-> SortedConflicts(c2)])>>]

\* OrphanedManifestDist built from the orphaned set as iterated in two runs.
BuildOrphanedManifestDist ==
    /\ built = NoBuilt
    /\ \E f1, f2 \in Encounters(DistFiles) :
          /\ SameValues(f1, f2)
          /\ built' = [cls |-> "OrphanedManifestDist", met |-> <<f1, f2>>,
                       findings |-> <<OrphanedManifestDist([version |-> 1], f1),
                                      OrphanedManifestDist([version |-> 1], f2)>>]

\* UnusedGlobalFlagsResult built from the flags as iterated in two runs.
BuildUnusedGlobalFlagsResult ==
    /\ built = NoBuilt
    /\ \E f1, f2 \in Encounters(PkgFlags) :
          /\ SameValues(f1, f2)
          /\ built' = [cls |-> "UnusedGlobalFlagsResult", met |-> <<f1, f2>>,
                       findings |-> <<UnusedGlobalFlagsResult(f1),
                                      UnusedGlobalFlagsResult(f2)>>]

\* UnusedLicenseReport built from the licenses as iterated in two runs.
BuildUnusedLicenseReport ==
    /\ built = NoBuilt
    /\ \E l1, l2 \in Encounters(Licenses) :
          /\ SameValues(l1, l2)
          /\ built' = [cls |-> "UnusedLicenseReport", met |-> <<l1, l2>>,
                       findings |-> <<UnusedLicenseReport(l1), UnusedLicenseReport(l2)>>]

\* DeprecatedEclass built from the items of eclasses as iterated in two runs.
BuildDeprecatedEclass ==
    /\ built = NoBuilt
    /\ \E e1, e2 \in Encounters(Range(blacklist)) :
          /\ SameValues(e1, e2)
          /\ built' = [cls |-> "DeprecatedEclass", met |-> <<e1, e2>>,
                       findings |-> <<DeprecatedEclass(APkg, e1), DeprecatedEclass(APkg, e2)>>]

(***************************************************************************)
(*                          Specifications                                 *)
(***************************************************************************)

\* The values the variables of a subsystem keep under another's specification.
IdleCache == files = {} /\ dirs = {} /\ denied = {} /\ call = NoCall
IdleDigests == InitDigests
IdleQuery == query_cache = <<>> /\ _key = <<>> /\ freq = "package" /\ qfeed = NoQFeed
IdleManifest ==
    /\ repos = [r \in RepoIds |->
                  [has_get_digests |-> FALSE, manifest |-> [version |-> 1, distfiles |-> <<>>]]]
    /\ mcall = NoMCall
IdleFindings == built = NoBuilt
IdleDepSet ==
    /\ pkg_evaluate_depsets_cache = <<>> /\ pkg_profiles_cache = <<>>
    /\ profiles = <<>> /\ dfeed = NoDFeed
IdleFold ==
    /\ flags = <<>> /\ licenses = <<>> /\ fold_reports = <<>>
    /\ fold = [env |-> [slaved |-> FALSE, global_iuse |-> {}, has_licenses |-> FALSE,
                        repo_licenses |-> {}, license_dirs |-> <<>>],
               flags |-> NewCheck, licenses |-> NewCheck]

InitCacheSpec ==
    InitCache /\ IdleDigests /\ IdleQuery /\ IdleManifest /\ IdleFold /\ IdleFindings /\ IdleDepSet
NextCache == RemoveCaches /\ UNCHANGED <<digestVars, queryVars, maniVars, foldVars, findVars, depVars>>
SpecCache == InitCacheSpec /\ [][NextCache]_vars

InitDigestsSpec ==
    IdleCache /\ InitDigests /\ IdleQuery /\ IdleManifest /\ IdleFold /\ IdleFindings /\ IdleDepSet
NextDigests ==
    \/ DigestsFeed /\ UNCHANGED <<cacheVars, queryVars, maniVars, foldVars, findVars, depVars>>
    \/ DigestsFinish /\ UNCHANGED <<cacheVars, queryVars, maniVars, foldVars, findVars, depVars>>
SpecDigests == InitDigestsSpec /\ [][NextDigests]_vars

InitQuerySpec ==
    IdleCache /\ IdleDigests /\ InitQuery /\ IdleManifest /\ IdleFold /\ IdleFindings /\ IdleDepSet
NextQuery == QueryFeed /\ UNCHANGED <<cacheVars, digestVars, maniVars, foldVars, findVars, depVars>>
SpecQuery == InitQuerySpec /\ [][NextQuery]_vars

InitManifestSpec ==
    IdleCache /\ IdleDigests /\ IdleQuery /\ InitManifest /\ IdleFold /\ IdleFindings /\ IdleDepSet
NextManifest ==
    ManifestDigestFeed /\ UNCHANGED <<cacheVars, digestVars, queryVars, foldVars, findVars, depVars>>
SpecManifest == InitManifestSpec /\ [][NextManifest]_vars

InitFoldSpec ==
    IdleCache /\ IdleDigests /\ IdleQuery /\ IdleManifest /\ InitFold /\ IdleFindings /\ IdleDepSet
NextFold ==
    \/ UnusedGlobalFlagsStart /\ UNCHANGED <<cacheVars, digestVars, queryVars, maniVars, findVars, depVars>>
    \/ UnusedGlobalFlagsFeed /\ UNCHANGED <<cacheVars, digestVars, queryVars, maniVars, findVars, depVars>>
    \/ UnusedGlobalFlagsFinish /\ UNCHANGED <<cacheVars, digestVars, queryVars, maniVars, findVars, depVars>>
    \/ UnusedLicenseStart /\ UNCHANGED <<cacheVars, digestVars, queryVars, maniVars, findVars, depVars>>
    \/ UnusedLicenseFeed /\ UNCHANGED <<cacheVars, digestVars, queryVars, maniVars, findVars, depVars>>
    \/ UnusedLicenseFinish /\ UNCHANGED <<cacheVars, digestVars, queryVars, maniVars, findVars, depVars>>
SpecFold == InitFoldSpec /\ [][NextFold]_vars

InitFindingsSpec ==
    IdleCache /\ IdleDigests /\ IdleQuery /\ IdleManifest /\ IdleFold /\ InitFindings /\ IdleDepSet
NextFindings ==
    \/ BuildConflictingChksums
           /\ UNCHANGED <<cacheVars, digestVars, queryVars, maniVars, foldVars, depVars>>
    \/ BuildManifestDigestConflict
           /\ UNCHANGED <<cacheVars, digestVars, queryVars, maniVars, foldVars, depVars>>
    \/ BuildOrphanedManifestDist
           /\ UNCHANGED <<cacheVars, digestVars, queryVars, maniVars, foldVars, depVars>>
    \/ BuildUnusedGlobalFlagsResult
           /\ UNCHANGED <<cacheVars, digestVars, queryVars, maniVars, foldVars, depVars>>
    \/ BuildUnusedLicenseReport
           /\ UNCHANGED <<cacheVars, digestVars, queryVars, maniVars, foldVars, depVars>>
    \/ BuildDeprecatedEclass
           /\ UNCHANGED <<cacheVars, digestVars, queryVars, maniVars, foldVars, depVars>>
SpecFindings == InitFindingsSpec /\ [][NextFindings]_vars

InitDepSetSpec ==
    IdleCache /\ IdleDigests /\ IdleQuery /\ IdleManifest /\ IdleFold /\ IdleFindings
        /\ InitDepSet
NextDepSet ==
    DepSetFeed /\ UNCHANGED <<cacheVars, digestVars, queryVars, maniVars, foldVars, findVars>>
SpecDepSet == InitDepSetSpec /\ [][NextDepSet]_vars

(***************************************************************************)
(*                     Properties: cache removal                           *)
(***************************************************************************)

\* The files of the tree before the call that a selected cache type matches.
SelectedFiles ==
    {f \in call.files : \E i \in DOMAIN caches :
        caches[i].file = Name(f) /\ call.options.cache[caches[i].type]}

\* C1: remove_caches without force never removes the root cache directory:
\* if the root existed before the call it exists after it, even when every
\* directory under it has become empty.
C1_RootNeverRemoved ==
    (call.called /\ ~call.options.force_cache /\ USER_CACHE_DIR \in call.dirs)
        => USER_CACHE_DIR \in dirs

\* C2: remove_caches without force deletes only files whose name matches the
\* file pattern of a cache type selected in options.cache; every other file
\* exists after the call as before it, and no file appears.
C2_OnlySelectedFilesDeleted ==
    (call.called /\ ~call.options.force_cache)
        => /\ files \subseteq call.files
           /\ call.files \ files \subseteq SelectedFiles

\* A call that deleted a cache file of the selected type and left a cache file
\* of the type not selected and a file no pattern matches.
C2_Witness ==
    /\ call.called /\ ~call.options.force_cache /\ ~call.options.dry_run
    /\ call.options.cache["git"] /\ ~call.options.cache["profiles"]
    /\ repos_dir \o <<"gentoo", "git.pickle">> \in call.files \ files
    /\ repos_dir \o <<"gentoo", "profiles.pickle">> \in files
    /\ repos_dir \o <<"gentoo", "notes.txt">> \in files

\* C15: with force_cache set, whatever options.cache selects, the call removes
\* the whole tree of the root cache directory (every file and directory of it,
\* the root included) unless the removal of an entry fails; when the root
\* directory does not exist the call changes nothing and raises no error.
C15_ForceRemovesWholeTree ==
    (call.called /\ call.options.force_cache) =>
        /\ USER_CACHE_DIR \notin call.dirs =>
              call.raised = NoExc /\ files = call.files /\ dirs = call.dirs
        /\ denied \cap (call.files \cup call.dirs) = {} => call.raised = NoExc
        /\ call.raised = NoExc => files = {} /\ dirs = {}

\* A forced call with no cache type selected that removed a tree holding
\* cache files of both types and files that are no cache files.
C15_Witness ==
    /\ call.called /\ call.options.force_cache
    /\ \A t \in DOMAIN call.options.cache : ~call.options.cache[t]
    /\ repos_dir \o <<"gentoo", "git.pickle">> \in call.files
    /\ repos_dir \o <<"gentoo", "profiles.pickle">> \in call.files
    /\ USER_CACHE_DIR \o <<"settings.conf">> \in call.files
    /\ files = {} /\ dirs = {}

\* The entries of the tree before the call that the call has no reason to
\* remove: the files not selected and the directories that held no file.
KeptEntries ==
    (call.files \ SelectedFiles)
        \cup {d \in call.dirs : \A f \in call.files : ~IsPrefix(d, f)}

\* C17: in a call without force and dry_run on a tree none of whose entries
\* refuses removal, a directory that is not empty when the loop reaches it
\* stops the loop without an error: every directory that holds an entry the
\* call does not remove is left in place with all directories above it, no
\* error is raised, and every selected cache file is deleted.
C17_NotEmptyDirectoryStopsQuietly ==
    (/\ call.called /\ ~call.options.force_cache /\ ~call.options.dry_run
     /\ denied \cap (call.files \cup call.dirs) = {})
    => /\ call.raised = NoExc
       /\ files = call.files \ SelectedFiles
       /\ \A d \in call.dirs : (\E p \in KeptEntries : IsPrefix(d, p)) => d \in dirs

\* A call that unlinked a cache file next to a file that stays, left their
\* directory and the ones above it, and went on to delete a cache file that
\* sorts later, in another directory, which it removed.
C17_Witness ==
    /\ call.called /\ ~call.options.force_cache /\ ~call.options.dry_run
    /\ call.raised = NoExc
    /\ repos_dir \o <<"gentoo", "git.pickle">> \in call.files \ files
    /\ repos_dir \o <<"gentoo", "notes.txt">> \in files
    /\ repos_dir \o <<"gentoo">> \in dirs /\ USER_CACHE_DIR \in dirs
    /\ repos_dir \o <<"local", "git.pickle">> \in call.files \ files
    /\ repos_dir \o <<"local">> \in call.dirs \ dirs

\* The tree after the call.
TreeAfter == [files |-> files, dirs |-> dirs]

\* C18: a failure of an unlink or of a directory removal (other than on a
\* directory that is not empty, and with force other than not found) ends
\* the call with a UserException, never with another exception, whose message
\* names the entry the failing operation was attempted on; and a call that
\* ends without an exception has hidden no failure: without force and dry_run
\* it deleted every selected file and left no directory above a deleted file
\* empty, with force it left nothing of the tree.
C18_FailureRaisesUserExceptionNamingPath ==
    call.called =>
        /\ call.raised.exc \in {None, "UserException"}
        /\ call.raised.exc = "UserException" =>
              /\ call.raised.filename \in denied
              /\ call.raised.filename \in files \cup dirs
              /\ call.raised.errno = "EACCES"
        /\ (call.raised = NoExc /\ call.options.force_cache) =>
              (USER_CACHE_DIR \notin call.dirs \/ (files = {} /\ dirs = {}))
        /\ (call.raised = NoExc /\ ~call.options.force_cache /\ ~call.options.dry_run) =>
              /\ files = call.files \ SelectedFiles
              /\ \A f \in call.files \ files :
                    \A d \in Ancestors(f) \cap dirs : Children(TreeAfter, d) # {}

\* A call that unlinked a cache file and failed to remove its directory: the
\* UserException names that directory at the end of its message, after the
\* path of the file.
C18_Witness ==
    /\ call.called /\ ~call.options.force_cache
    /\ call.raised.exc = "UserException"
    /\ call.raised.path \in call.files \ files
    /\ call.raised.filename = Parent(call.raised.path)
    /\ call.raised.filename \in dirs

\* C22: a dry run of remove_caches changes nothing: whenever options.dry_run
\* is set, the call removes no file and no directory, for every selection in
\* options.cache and for either value of the force_cache flag.
C22_DryRunChangesNothing ==
    (call.called /\ call.options.dry_run)
        => (files = call.files /\ dirs = call.dirs)

(***************************************************************************)
(*                  Properties: ConflictingDigests                         *)
(***************************************************************************)

\* The positions of the log entries of a filename.
EntriesOf(fn) == {i \in DOMAIN log : log[i].filename = fn}

\* The last log entry of a filename is the declaration _fetchables reflects.
IsLastOf(i) == \A j \in EntriesOf(log[i].filename) : j <= i

\* The common algorithms of a declaration and the stored set that differ.
Differ(e) ==
    {chf \in DOMAIN e.chksums \cap DOMAIN e.reqed_chksums :
        e.chksums[chf] # e.reqed_chksums[chf]}

\* A declaration of a seen filename with no conflict and strictly more
\* algorithms than the stored set.
Enriches(e) ==
    /\ e.seen /\ ~e.emitted
    /\ Cardinality(DOMAIN e.chksums) > Cardinality(DOMAIN e.reqed_chksums)

\* C3: checksum enrichment: after a record declares an already-seen filename
\* with no conflicting digest and strictly more algorithms than the stored
\* set, the stored checksum set of the filename is the new, richer set.
C3_EnrichmentReplacesStored ==
    \A i \in DOMAIN log :
        (IsLastOf(i) /\ Enriches(log[i]))
            => _fetchables[log[i].filename][1] = log[i].chksums

\* The scenario of C4: two feeds in all, each declaring the same filename once
\* with a sha256 digest only, by distinct records, the digests differing.
C4_Scenario ==
    /\ nfeeds = 2 /\ Len(log) = 2
    /\ log[1].feed = 1 /\ log[2].feed = 2
    /\ log[1].filename = log[2].filename
    /\ log[1].pkg # log[2].pkg
    /\ DOMAIN log[1].chksums = {"sha256"} /\ DOMAIN log[2].chksums = {"sha256"}
    /\ log[1].chksums["sha256"] # log[2].chksums["sha256"]

\* C4: checksum conflict symmetry: in that scenario exactly one Finding is
\* emitted in all, on the second feed; it cites the triple (sha256, B, A) (the
\* digests as "%x" prints them), names the second record as the current one
\* and lists the first record, and only it, once among the others.
C4_OneFindingForTwoRecords ==
    C4_Scenario =>
        /\ Len(reports) = 1
        /\ ~log[1].emitted /\ log[2].emitted
        /\ reports[1].filename = log[1].filename
        /\ reports[1].chksums = << <<"sha256", Hex(log[2].chksums["sha256"]),
                                               Hex(log[1].chksums["sha256"])>> >>
        /\ reports[1].category = log[2].pkg.category
        /\ reports[1].package = log[2].pkg.package
        /\ reports[1].version = log[2].pkg.version
        /\ reports[1].others = <<get_cpvstr(log[1].pkg)>>

C4_Witness == C4_Scenario /\ Len(reports) = 1

\* C5: first seen wins: a declaration that is reported as a conflict leaves
\* the stored checksum set of its filename as it found it; so a later
\* declaration repeating the reported checksums is reported again, and one
\* repeating the first-seen checksums of the filename is not reported.
C5_FirstSeenWins ==
    \A i \in DOMAIN log :
        LET fn == log[i].filename
            later == {j \in EntriesOf(fn) : j > i}
        IN /\ log[i].emitted =>
                /\ IsLastOf(i) => _fetchables[fn][1] = log[i].reqed_chksums
                /\ \A j \in later :
                      /\ (\A k \in later : j <= k)
                            => log[j].reqed_chksums = log[i].reqed_chksums
                      /\ log[j].chksums = log[i].chksums => log[j].emitted
           /\ \A f \in EntriesOf(fn) :
                 ((\A k \in EntriesOf(fn) : f <= k) /\ log[i].chksums = log[f].chksums)
                     => ~log[i].emitted

\* A conflict that is reported again when repeated, and between the two a
\* declaration repeating the first-seen checksums, which is not reported.
C5_Witness ==
    \E i, j, k \in DOMAIN log :
        /\ i < k /\ k < j
        /\ log[i].filename = log[j].filename /\ log[k].filename = log[i].filename
        /\ log[i].emitted /\ log[j].emitted /\ log[i].chksums = log[j].chksums
        /\ log[k].seen /\ ~log[k].emitted

\* C6, as a step of feed: the Findings the feed adds are those of its
\* declarations for which some algorithm occurs in the new and in the stored
\* checksum set with different digests (none when the sets are disjoint or
\* agree on every common algorithm, none for an unseen filename), and each
\* carries the triples of exactly the common algorithms that differ.
C6_Step ==
    nfeeds' = nfeeds + 1 =>
        LET new == {i \in DOMAIN log' : i > Len(log)}
            first == Len(log) + 1
        IN /\ new # {}
           /\ log'[first].seen = (log'[first].filename \in DOMAIN _fetchables)
           /\ log'[first].seen =>
                 log'[first].reqed_chksums = _fetchables[log'[first].filename][1]
           /\ Len(reports') = Len(reports) + Cardinality({i \in new : log'[i].emitted})
           /\ \A i \in new :
                LET e == log'[i] IN
                /\ e.emitted = (e.seen /\ Differ(e) # {})
                /\ e.emitted =>
                     /\ e.finding \in DOMAIN reports' /\ e.finding > Len(reports)
                     /\ reports'[e.finding].filename = e.filename
                     /\ Len(reports'[e.finding].chksums) = Cardinality(Differ(e))
                     /\ Range(reports'[e.finding].chksums) =
                           {reformat_chksum(<<chf, e.chksums[chf], e.reqed_chksums[chf]>>) :
                               chf \in Differ(e)}

C6_FindingIffCommonAlgorithmDiffers == [][C6_Step]_vars

\* A reported declaration, a declaration whose algorithms are disjoint from
\* the stored ones and one that agrees on the common algorithm, neither
\* reported.
C6_Witness ==
    /\ \E i \in DOMAIN log : log[i].emitted /\ Differ(log[i]) # {}
    /\ \E i \in DOMAIN log :
          /\ log[i].seen /\ ~log[i].emitted
          /\ DOMAIN log[i].chksums \cap DOMAIN log[i].reqed_chksums = {}
    /\ \E i \in DOMAIN log :
          /\ log[i].seen /\ ~log[i].emitted
          /\ DOMAIN log[i].chksums \cap DOMAIN log[i].reqed_chksums # {}

\* C19, as a step of feed or finish: every Finding the reporter holds stays
\* as it is, field by field; so the previously-seen list of a ConflictingChksums
\* Finding is the one of the moment it was emitted, whatever is appended to
\* the seen-list of its filename afterwards.
C19_Step ==
    \A k \in DOMAIN reports : k \in DOMAIN reports' /\ reports'[k] = reports[k]

C19_FindingsKeepTheirFields == [][C19_Step]_vars

\* A Finding emitted in this scan for a filename whose seen-list has grown by
\* two records since: the Finding lists one record, the seen-list three.
C19_Witness ==
    \E i \in DOMAIN log :
        /\ log[i].emitted
        /\ Len(reports[log[i].finding].others) = 1
        /\ Len(_fetchables[log[i].filename][2]) = 3

\* The declarations of the filename of log entry i that precede it (log holds
\* the declarations since the last finish).
EarlierOf(i) == {j \in EntriesOf(log[i].filename) : j < i}

\* C20: finish resets the detector: the filenames _fetchables knows are those
\* declared since the last finish (none right after it); the first
\* declaration of a filename since the last finish is treated as unseen and
\* gets no Finding; and the previously-seen list of a Finding emitted since
\* holds the records that declared the filename since the last finish before
\* it, each as often as it did, and no other.
C20_FinishResetsDetector ==
    /\ DOMAIN _fetchables = {log[i].filename : i \in DOMAIN log}
    /\ \A i \in DOMAIN log :
          /\ EarlierOf(i) = {} => ~log[i].seen /\ ~log[i].emitted
          /\ log[i].emitted =>
                LET others == reports[log[i].finding].others
                IN /\ Len(others) = Cardinality(EarlierOf(i))
                   /\ \A p \in Pkgs :
                         Cardinality({k \in DOMAIN others : others[k] = get_cpvstr(p)})
                           = Cardinality({j \in EarlierOf(i) : log[j].pkg = p})

\* The Findings emitted before the last finish.
BeforeFinish == {k \in DOMAIN reports : \A i \in DOMAIN log : log[i].finding # k}

\* Before the last finish a.tar was stored with sha256 0xa (a Finding of then
\* says so); its first declaration since, with sha256 0xb, got no Finding,
\* and a later one got a Finding listing one record.
C20_Witness ==
    /\ \E k \in BeforeFinish :
          /\ reports[k].filename = "a.tar"
          /\ reports[k].chksums = << <<"sha256", "b", "a">> >>
    /\ Len(log) >= 2
    /\ log[1].filename = "a.tar" /\ ~log[1].seen
    /\ DOMAIN log[1].chksums = {"sha256"} /\ log[1].chksums["sha256"] = 11
    /\ \E i \in DOMAIN log : log[i].emitted /\ Len(reports[log[i].finding].others) = 1

\* The declarations of a filename fed since the last finish, in feed order.
DeclarationsOf(fn) == SelectSeq(log, LAMBDA e : e.filename = fn)

\* The record identities of the declarations of a filename, in feed order.
DeclaredBy(fn) ==
    [k \in DOMAIN DeclarationsOf(fn) |-> get_cpvstr(DeclarationsOf(fn)[k].pkg)]

\* C21: seen-list invariant: after any sequence of feeds since the last
\* finish, the mapping holds the filenames declared so far, and the seen-list
\* of each holds exactly one record identity per declaration of the filename,
\* in feed order, starting with the first declaring record, whether a
\* declaration conflicted, enriched the stored set, or did neither.
C21_SeenListHoldsEveryDeclaration ==
    /\ DOMAIN _fetchables = {log[i].filename : i \in DOMAIN log}
    /\ \A fn \in DOMAIN _fetchables : _fetchables[fn][2] = DeclaredBy(fn)

\* C21 witness: a filename declared four times since the last finish, by both
\* records: a later declaration conflicted, one enriched the stored set and
\* one did neither, and the seen-list has the four identities.
C21_Witness ==
    \E fn \in DOMAIN _fetchables :
        LET d == DeclarationsOf(fn)
        IN /\ Len(d) = 4
           /\ Len(_fetchables[fn][2]) = 4
           /\ ~d[1].seen
           /\ \E k \in 2..4 : d[k].emitted
           /\ \E k \in 2..4 : Enriches(d[k])
           /\ \E k \in 2..4 : d[k].seen /\ ~d[k].emitted /\ ~Enriches(d[k])
           /\ {d[k].pkg : k \in 1..4} = Pkgs

(***************************************************************************)
(*                      Properties: QueryCache                             *)
(***************************************************************************)

\* The last two units fed have different keys / the same key under the
\* configured key function.
KeyChanged ==
    qfeed.fed = 2 /\ _keyfunc(freq, qfeed.item) # _keyfunc(freq, qfeed.prev_item)

KeyKept ==
    qfeed.fed = 2 /\ _keyfunc(freq, qfeed.item) = _keyfunc(freq, qfeed.prev_item)

\* C7: for consecutive feed units whose keys differ, query_cache is empty when
\* the second unit is passed to the downstream feed.
C7_ClearedOnKeyChange == KeyChanged => qfeed.cache_downstream = <<>>

\* The key changed after a unit during which entries were memoized.
C7_Witness == KeyChanged /\ qfeed.cache_before # <<>> /\ freq = "package"

\* C8: for consecutive feed units of equal key, the entries query_cache held
\* when the first unit ended are all there, with their values, when the second
\* unit is passed to the downstream feed.
C8_KeptWhileKeyUnchanged == KeyKept => qfeed.cache_downstream = qfeed.cache_before

\* Two different versions of one package with entries memoized for the first.
C8_Witness ==
    /\ KeyKept /\ freq = "package" /\ qfeed.item # qfeed.prev_item
    /\ DOMAIN qfeed.cache_before = QueryKeys

(***************************************************************************)
(*          Properties: UnusedGlobalFlags and UnusedLicense                *)
(***************************************************************************)

\* The set a check holds: none for None.
Held(x) == IF x = <<>> THEN {} ELSE x[1]

\* What a step of check c (its position before and after the step, the set it
\* holds before and after, the tuple a Finding of it carries) must satisfy.
FoldStep(c, held, held_, IsFindingOf(_), Named(_)) ==
    LET old == fold[c]
        new == fold'[c]
        residual == old.built \ old.matched
    IN /\ (old.phase = "new" /\ new.phase = "started") => fold_reports' = fold_reports
       /\ new.n = old.n + 1 =>
             /\ held_ \subseteq held
             /\ fold_reports' = fold_reports
       /\ (old.phase = "started" /\ new.phase = "finished") =>
             IF residual = {}
             THEN fold_reports' = fold_reports
             ELSE /\ Len(fold_reports') = Len(fold_reports) + 1
                  /\ SubSeq(fold_reports', 1, Len(fold_reports)) = fold_reports
                  /\ IsFindingOf(fold_reports'[Len(fold_reports')])
                  /\ Len(Named(fold_reports'[Len(fold_reports')])) = Cardinality(residual)
                  /\ Range(Named(fold_reports'[Len(fold_reports')])) = residual

IsUnusedGlobalFlagsResult(x) == x.cls = "UnusedGlobalFlagsResult"
IsUnusedLicenseReport(x) == x.cls = "UnusedLicenseReport"
NamedFlags(x) == x.flags
NamedLicenses(x) == x.licenses

\* C14, as a step of UnusedGlobalFlags or UnusedLicense: start and feed emit
\* no Finding; a feed does not add to the set the check holds; finish emits
\* one Finding naming the set start built minus the items the records fed
\* matched when that residual is not empty, and none when it is empty.
C14_Step ==
    /\ FoldStep("flags", Held(flags), Held(flags'), IsUnusedGlobalFlagsResult, NamedFlags)
    /\ FoldStep("licenses", Held(licenses), Held(licenses'), IsUnusedLicenseReport,
                NamedLicenses)

C14_FoldEmitsResidualAtFinish == [][C14_Step]_vars

\* Both checks finished after two feeds each: one emitted a residual of two
\* flags of which none was matched, the other a residual that a feed had
\* shrunk to one license.
C14_Witness ==
    /\ fold.flags.phase = "finished" /\ fold.licenses.phase = "finished"
    /\ fold.flags.n = 2 /\ fold.licenses.n = 2
    /\ fold.flags.matched # {} /\ fold.flags.built \ fold.flags.matched = GlobalFlags
    /\ fold.licenses.built = Licenses /\ fold.licenses.matched = {"BSD"}
    /\ Len(fold_reports) = 2

(***************************************************************************)
(*             Properties: the multi-value fields of Findings              *)
(***************************************************************************)

\* C16: the multi-value fields of a Finding (the chksums and others of
\* ConflictingChksums, the checksum tuple of a ManifestDigestConflict message,
\* the files of OrphanedManifestDist, the tuples of unused flags and licenses,
\* the eclasses of DeprecatedEclass) depend on the values collected only: two
\* runs that meet the same values in different orders build the same Finding.
C16_FieldsIndependentOfEncounterOrder ==
    built.cls # "" => built.findings[1] = built.findings[2]

\* A ConflictingChksums built twice from three conflicts and a seen-list of
\* two records, each met in two different orders.
C16_Witness ==
    /\ built.cls = "ConflictingChksums"
    /\ Len(built.met[1][1]) = 3 /\ built.met[1][1] # built.met[2][1]
    /\ Len(built.met[1][2]) >= 2 /\ built.met[1][2] # built.met[2][2]
    /\ built.findings[1].chksums[1][1] = "sha256"
    /\ built.findings[1].others[1] = "dev-a/foo-1"

(***************************************************************************)
(*                Properties: ConflictManifestDigest                       *)
(***************************************************************************)

\* The guards of feed let the repository through.
PassesGuards(r) == repos[r].manifest.version # 1 /\ repos[r].has_get_digests

\* The distfiles the Manifest of the package names, in a repository.
ManifestFiles(r) == DOMAIN repos[r].manifest.distfiles

\* The legacy-ledger entries fetched for record i of the unit: those of its
\* digests, none when the fetch fails.
LegacyEntries(i) ==
    IF mcall.unit[i].missing = "" THEN DOMAIN mcall.unit[i].digests ELSE {}

IsOrphanFinding(f) == f.cls = "OrphanedManifestDist"

OrphanFindings == SelectSeq(mcall.reports, IsOrphanFinding)

\* The Findings about record i itself.
RecordFindings(i) ==
    {k \in DOMAIN mcall.reports :
        mcall.reports[k].version = i /\ ~IsOrphanFinding(mcall.reports[k])}

\* C9: for a package unit that passes the guards (and a feed that returns),
\* exactly one orphan Finding is emitted when some Manifest filename is
\* matched by no legacy-ledger entry of any record of the unit, naming all
\* such filenames, and none otherwise; also when the records of the unit are
\* of several repositories or not contiguous by repository.
C9_OneOrphanFindingPerUnit ==
    (/\ mcall.called /\ mcall.raised = ""
     /\ \A i \in DOMAIN mcall.unit : PassesGuards(mcall.unit[i].repo))
    => LET orphans == UNION {ManifestFiles(mcall.unit[i].repo) : i \in DOMAIN mcall.unit}
                        \ UNION {LegacyEntries(i) : i \in DOMAIN mcall.unit}
       IN IF orphans # {}
          THEN Len(OrphanFindings) = 1 /\ Range(OrphanFindings[1].files) = orphans
          ELSE OrphanFindings = <<>>

\* The records whose fetch fails, in a repository the guards let through.
FailingRecords ==
    {i \in DOMAIN mcall.unit :
        mcall.unit[i].missing # "" /\ PassesGuards(mcall.unit[i].repo)}

\* C10 as claimed: when the fetch of a record fails for one unavailable file
\* (and feed returns), one Finding naming the file is emitted for the record,
\* and the other files of the record are still compared against the Manifest
\* and still count as matched for the orphan computation.
C10_RemainingFilesStillCount ==
    (mcall.called /\ mcall.raised = "") =>
        \A i \in FailingRecords :
            /\ \E k \in RecordFindings(i) :
                  /\ mcall.reports[k].cls = "MissingDigest"
                  /\ mcall.reports[k].filename = mcall.unit[i].missing
            /\ \A f \in DOMAIN mcall.unit[i].digests :
                  /\ f \notin ManifestFiles(mcall.unit[i].repo) =>
                        \E k \in RecordFindings(i) :
                            /\ mcall.reports[k].cls = "ManifestDigestConflict"
                            /\ mcall.reports[k].filename = f
                  /\ \A k \in DOMAIN OrphanFindings : f \notin Range(OrphanFindings[k].files)

\* The group of the unit (a run of consecutive records of one repository)
\* that holds record i.
GroupOf(i) ==
    LET groups == groupby(mcall.unit, 1)
    IN groups[CHOOSE g \in DOMAIN groups : i \in Range(groups[g])]

\* feed went through the whole group without raising.
GroupDone(G) ==
    /\ Range(G) \subseteq Range(mcall.fetched)
    /\ mcall.raised = "" \/ mcall.fetched[Len(mcall.fetched)] \notin Range(G)

\* C10, amended: when the fetch of a record fails for an unavailable file,
\* exactly one Finding is emitted for the record, naming that file; none of
\* the record's files is compared against the Manifest, and none counts as
\* matched for the orphan Finding of its group; feed goes on with the next
\* record.
C10_FailingRecordIsSkipped ==
    mcall.called =>
        \A i \in Range(mcall.fetched) :
            mcall.unit[i].missing # "" =>
              LET G == GroupOf(i)
                  r == mcall.unit[i].repo
                  orphans == ManifestFiles(r) \ UNION {LegacyEntries(j) : j \in Range(G)}
                  found == {k \in DOMAIN mcall.reports :
                              /\ IsOrphanFinding(mcall.reports[k])
                              /\ mcall.reports[k].version = G[1]}
              IN /\ Cardinality(RecordFindings(i)) = 1
                 /\ \A k \in RecordFindings(i) :
                       /\ mcall.reports[k].cls = "MissingDigest"
                       /\ mcall.reports[k].filename = mcall.unit[i].missing
                 /\ \A k \in found : Range(mcall.reports[k].files) = orphans
                 /\ (GroupDone(G) /\ orphans # {}) => Cardinality(found) = 1
                 /\ (i < Len(mcall.unit) /\ PassesGuards(mcall.unit[i + 1].repo))
                       => i + 1 \in Range(mcall.fetched)

\* A record whose fetch failed, with a digest for another file that the
\* orphan Finding names all the same, followed by a record that was fetched.
C10_Witness ==
    /\ mcall.called
    /\ \E i \in Range(mcall.fetched) :
          /\ mcall.unit[i].missing # ""
          /\ \E f \in DOMAIN mcall.unit[i].digests :
                \E k \in DOMAIN OrphanFindings :
                    /\ OrphanFindings[k].version = GroupOf(i)[1]
                    /\ f \in Range(OrphanFindings[k].files)
          /\ i + 1 \in Range(mcall.fetched)

\* The Manifest entry and the legacy-ledger entry of record i for distfile f.
ManifestEntry(i, f) == repos[mcall.unit[i].repo].manifest.distfiles[f]
LegacyEntry(i, f) == mcall.unit[i].digests[f]

\* The algorithms both entries declare, and those with different digests.
CommonAlgorithms(i, f) == DOMAIN ManifestEntry(i, f) \cap DOMAIN LegacyEntry(i, f)

DifferingAlgorithms(i, f) ==
    {chf \in CommonAlgorithms(i, f) : ManifestEntry(i, f)[chf] # LegacyEntry(i, f)[chf]}

IsConflictFinding(x) == x.cls = "ManifestDigestConflict" /\ x.msg.kind = "chksum conflict"

\* The conflict Findings for record i and distfile f.
ConflictFindings(i, f) ==
    {k \in DOMAIN mcall.reports :
        /\ IsConflictFinding(mcall.reports[k])
        /\ mcall.reports[k].version = i /\ mcall.reports[k].filename = f}

\* C11: check_pkg emits a conflict Finding for a (record, filename) only when
\* the legacy entry and the Manifest entry declare a common algorithm with
\* different digests; there is at most one conflict Finding per (record,
\* filename), and it names exactly the common algorithms whose digests differ,
\* so an algorithm of one ledger only is never named.
C11_ConflictOnlyForDifferingCommon ==
    mcall.called =>
        \A k \in DOMAIN mcall.reports :
            IsConflictFinding(mcall.reports[k]) =>
                LET i == mcall.reports[k].version
                    f == mcall.reports[k].filename
                IN /\ i \in Range(mcall.fetched) /\ mcall.unit[i].missing = ""
                   /\ f \in DOMAIN mcall.unit[i].digests
                   /\ f \in ManifestFiles(mcall.unit[i].repo)
                   /\ DifferingAlgorithms(i, f) # {}
                   /\ Len(mcall.reports[k].msg.chksums) = Cardinality(DifferingAlgorithms(i, f))
                   /\ Range(mcall.reports[k].msg.chksums) =
                         {reformat_chksum(<<chf, ManifestEntry(i, f)[chf], LegacyEntry(i, f)[chf]>>) :
                             chf \in DifferingAlgorithms(i, f)}
                   /\ ConflictFindings(i, f) = {k}

\* A conflict Finding naming sha256 for entries that agree on size, and, in
\* the same unit, a record whose entry has an algorithm the Manifest entry
\* lacks and agrees on the common one, with no conflict Finding.
C11_Witness ==
    /\ mcall.called
    /\ \E k \in DOMAIN mcall.reports :
          /\ IsConflictFinding(mcall.reports[k])
          /\ DifferingAlgorithms(mcall.reports[k].version, mcall.reports[k].filename)
                = {"sha256"}
          /\ CommonAlgorithms(mcall.reports[k].version, mcall.reports[k].filename)
                = {"sha256", "size"}
    /\ \E i \in Range(mcall.fetched) :
          /\ mcall.unit[i].missing = ""
          /\ "x.tar" \in DOMAIN mcall.unit[i].digests
          /\ "x.tar" \in ManifestFiles(mcall.unit[i].repo)
          /\ "sha512" \in DOMAIN LegacyEntry(i, "x.tar")
          /\ ConflictFindings(i, "x.tar") = {}

IsMissingInManifest(x) ==
    x.cls = "ManifestDigestConflict" /\ x.msg.kind = "missing in manifest"

\* The 'missing in manifest' Findings for record i and distfile f.
MissingInManifestFindings(i, f) ==
    {k \in DOMAIN mcall.reports :
        /\ IsMissingInManifest(mcall.reports[k])
        /\ mcall.reports[k].version = i /\ mcall.reports[k].filename = f}

\* The records check_pkg was called for: those whose legacy ledger was fetched.
Checked == {i \in Range(mcall.fetched) : mcall.unit[i].missing = ""}

\* C12: for every legacy-ledger entry of a record given to check_pkg whose
\* filename has no Manifest entry, exactly one 'missing in manifest' Finding
\* is emitted for the record and filename, and no conflict Finding; for a
\* filename that has a Manifest entry no 'missing in manifest' Finding is
\* emitted.
C12_MissingInManifestOncePerFile ==
    mcall.called =>
        \A i \in Checked :
            \A f \in DOMAIN mcall.unit[i].digests :
                IF f \in ManifestFiles(mcall.unit[i].repo)
                THEN MissingInManifestFindings(i, f) = {}
                ELSE /\ Cardinality(MissingInManifestFindings(i, f)) = 1
                     /\ ConflictFindings(i, f) = {}

\* C13: the records of a repository whose Manifest is of format version 1, or
\* that has no _get_digests, are not fetched and get no Finding of any kind;
\* a unit of such records only produces no Finding and raises no error.
C13_GuardedRecordsProduceNothing ==
    mcall.called =>
        /\ \A i \in DOMAIN mcall.unit :
              ~PassesGuards(mcall.unit[i].repo) =>
                  /\ i \notin Range(mcall.fetched)
                  /\ \A k \in DOMAIN mcall.reports : mcall.reports[k].version # i
        /\ (\A i \in DOMAIN mcall.unit : ~PassesGuards(mcall.unit[i].repo))
              => mcall.reports = <<>> /\ mcall.raised = ""

\* A unit of a record of a repository with a version 1 Manifest and a record
\* of a repository without _get_digests: the first has an entry differing
\* from the Manifest's in two algorithms, the second an entry the Manifest
\* lacks, and the Manifest names a file no record has.
C13_Witness ==
    /\ mcall.called /\ mcall.reports = <<>> /\ mcall.raised = ""
    /\ repos["gentoo"].manifest.version = 1 /\ repos["gentoo"].has_get_digests
    /\ repos["overlay"].manifest.version # 1 /\ ~repos["overlay"].has_get_digests
    /\ \E i, j \in DOMAIN mcall.unit :
          /\ mcall.unit[i].repo = "gentoo"
          /\ "x.tar" \in DOMAIN mcall.unit[i].digests \cap ManifestFiles("gentoo")
          /\ Cardinality(DifferingAlgorithms(i, "x.tar")) = 2
          /\ mcall.unit[j].repo = "overlay"
          /\ DOMAIN mcall.unit[j].digests = {"y.tar"}
          /\ ManifestFiles("overlay") = {"x.tar"}


(***************************************************************************)
(*                  Properties: EvaluateDepSet                             *)
(***************************************************************************)

\* The calls of the last unit before call k that computed and memoized the
\* entry of the attribute of call k.
MemoizedBefore(k) ==
    {j \in 1..(k - 1) : dfeed.calls[j].attr = dfeed.calls[k].attr /\ ~dfeed.calls[j].served}

\* The calls of the last unit before call k that asked identify_profiles.
ProfilesMemoizedBefore(k) ==
    {j \in 1..(k - 1) : ~dfeed.calls[j].served /\ ~dfeed.calls[j].profiles_served}

\* C23: the EvaluateDepSet caches live for one feed unit only: after every
\* EvaluateDepSet.feed returns both caches are empty, so whatever a call of
\* collapse_evaluate_depset is served from a cache was memoized by an earlier
\* call made for the same unit, never for an earlier unit, even when the two
\* units share the record, the package or the category.
C23_CachesLiveForOneUnit ==
    dfeed.fed > 0 =>
        /\ pkg_evaluate_depsets_cache = <<>>
        /\ pkg_profiles_cache = <<>>
        /\ \A k \in DOMAIN dfeed.calls :
              /\ dfeed.calls[k].served => MemoizedBefore(k) # {}
              /\ dfeed.calls[k].profiles_served => ProfilesMemoizedBefore(k) # {}

\* C23 witness: two units in a row for the same record; the checks of the
\* first evaluated an attribute, the checks of the second evaluate it again:
\* their first call computes it anew and memoizes it, and a later call of the
\* same unit is served from the cache.
C23_Witness ==
    /\ dfeed.fed = 2
    /\ dfeed.item = dfeed.prev_item
    /\ \E k \in DOMAIN dfeed.calls :
          /\ dfeed.calls[k].attr \in dfeed.prev_attrs
          /\ ~dfeed.calls[k].served
          /\ <<dfeed.item, dfeed.calls[k].attr>> \in dfeed.memoized
          /\ \E m \in DOMAIN dfeed.calls :
                m > k /\ dfeed.calls[m].attr = dfeed.calls[k].attr /\ dfeed.calls[m].served
    /\ dfeed.profiles_memoized = {dfeed.item}
    /\ pkg_evaluate_depsets_cache = <<>>
    /\ pkg_profiles_cache = <<>>

====
